---- MODULE Spec2Model ----
(***************************************************************************)
(* Graph construction of the gated denoise pipeline                        *)
(* (research/object_detection/denoise.py, evaluator.py, module.py).        *)
(*                                                                         *)
(* Spec      builds the gated_denoise graph of each clone step by step:    *)
(*           tensors are symbolic terms with their static shape, weights   *)
(*           are the names registered in the TensorFlow variable store.    *)
(* SpecRun   evaluates the arithmetic of the gate blend, of the residual   *)
(*           generator's last two lines, of the mixture of filters and of  *)
(*           the loss terms on small exact-rational inputs.                *)
(* SpecTrain is the trainer and evaluator around it (discrim_merger.py,    *)
(*           evaluator.py, module.py): get_inputs, the noise injectors,    *)
(*           the doubled batch, generator_unet, the loss registration,     *)
(*           the checkpoint restores and the evaluation loop.              *)
(***************************************************************************)
EXTENDS Integers, Sequences, FiniteSets, TLC

\* ------------------------------------------------------------------ bounds
MaxBatch == 2          \* examples in the batch handed to gated_denoise
MaxNoisy == 1          \* noisy_batch_size
MaxFilterSize == 2     \* FLAGS.filter_size
MaxResDepth == 9       \* FLAGS.res_depth values the generator distinguishes
MaxClones == 2         \* FLAGS.num_clones

Modules == {"denoise", "evaluator"}
ImageSizes == {<<4, 8>>, <<256, 256>>}

\* ----------------------------------------------------------------- tensors
\* A tensor of the graph: the op that produced it, an integer attribute, the
\* tensors it was computed from, and its static shape <<batch, h, w, c>>.
Tensor(op, k, ins, shape) == [op |-> op, k |-> k, ins |-> ins, shape |-> shape]

NoTensor == Tensor("undefined", 0, <<>>, <<0, 0, 0, 0>>)

Min(a, b) == IF a <= b THEN a ELSE b
Max(a, b) == IF a >= b THEN a ELSE b

\* x[:n] and x[n:] on the batch axis (Python slice semantics, n >= 0).
SliceLo(x, n) ==
    Tensor("slice_lo", n, <<x>>, [x.shape EXCEPT ![1] = Min(n, x.shape[1])])

SliceHi(x, n) ==
    Tensor("slice_hi", n, <<x>>, [x.shape EXCEPT ![1] = Max(x.shape[1] - n, 0)])

\* n * [v]: Python list repetition.
RECURSIVE ListRepeat(_, _)
ListRepeat(n, l) == IF n = 0 THEN <<>> ELSE l \o ListRepeat(n - 1, l)

AvgPoolStridesQuarter == <<1, 4, 4, 1>>

\* strides=4*[1]
AvgPoolStrides == ListRepeat(4, <<1>>)

\* Output extent of a pooling op with padding='SAME'.
SameOut(n, stride) == (n + stride - 1) \div stride

\* tf.nn.avg_pool(image, ksize=[1,f,f,1], strides=4*[1], padding='SAME')
average_filter(image, filter_size) ==
    Tensor("avg_pool", filter_size, <<image>>,
           [i \in 1..4 |-> SameOut(image.shape[i], AvgPoolStrides[i])])

\* Elementwise ops broadcast: each axis equal, or 1 on one side.
Broadcastable(s, t) == \A i \in 1..4 : s[i] = t[i] \/ s[i] = 1 \/ t[i] = 1
BroadcastShape(s, t) == [i \in 1..4 |-> IF s[i] = 1 THEN t[i] ELSE s[i]]

\* tf.concat(values, 3): all axes but the channel axis must agree.
ConcatOk(a, b) == \A i \in 1..3 : a.shape[i] = b.shape[i]
Concat3(a, b) ==
    Tensor("concat", 3, <<a, b>>, [a.shape EXCEPT ![4] = a.shape[4] + b.shape[4]])

\* ---------------------------------------------------------- variable store
\* A weight is named by its path: <<outer scope, builder scope, layer, part>>.
\* One get_variable call made inside a variable scope whose reuse attribute
\* is `reuse`, on the store and bookkeeping of the build `st`.
GetVariable(var, reuse, st) ==
    IF reuse
    THEN IF var \in st.store
         THEN [st EXCEPT !.used = @ \cup {var}, !.touched = @ \cup {var}]
         ELSE [st EXCEPT !.err = "ValueError: variable does not exist",
                         !.touched = @ \cup {var}]
    ELSE IF var \in st.store
         THEN [st EXCEPT !.err = "ValueError: variable already exists",
                         !.touched = @ \cup {var}]
         ELSE [st EXCEPT !.store = @ \cup {var}, !.created = @ \cup {var},
                         !.used = @ \cup {var}, !.touched = @ \cup {var}]

RECURSIVE GetVariables(_, _, _, _)
GetVariables(layers, path, reuse, st) ==
    IF layers = <<>> \/ st.err # "" THEN st
    ELSE GetVariables(Tail(layers), path, reuse,
                      GetVariable(path \o Head(layers), reuse, st))

\* with tf.variable_scope(name):
\*     if reuse: tf.get_variable_scope().reuse_variables()
\*     else:     assert tf.get_variable_scope().reuse is False
\* followed by the layers of the network. The scope entered inherits the
\* reuse attribute of the enclosing scope.
ScopeReuseAsserted(reuse, outer_reuse) == reuse \/ ~outer_reuse

BuildLayers(layers, path, reuse, outer_reuse, store) ==
    LET st0 == [err |-> "", store |-> store, created |-> {}, used |-> {},
                touched |-> {}]
    IN  IF ~ScopeReuseAsserted(reuse, outer_reuse)
        THEN [st0 EXCEPT !.err = "AssertionError"]
        ELSE GetVariables(layers, path, reuse \/ outer_reuse, st0)

\* The record of one network build, kept in the order the builds happen.
BuildEvent(fn, site, path, reuse, input, blocks, d1_input, st) ==
    [fn |-> fn, site |-> site, scope |-> path, reuse |-> reuse,
     input |-> input, blocks |-> blocks, d1_input |-> d1_input,
     created |-> st.created, used |-> st.used, touched |-> st.touched,
     err |-> st.err]

\* What a builder hands back: the error raised ("": none), the store after
\* it, its output tensor and the builds it made.
Built(st, out, events) ==
    [err |-> st.err, store |-> st.store, out |-> out, events |-> events]

\* --------------------------------------------------------------- module.py
Plain(names) == [i \in 1..Len(names) |-> <<names[i], "">>]

DiscriminatorLayers ==
    Plain(<<"d_h0_conv", "d_h1_conv", "d_bn1", "d_h2_conv", "d_bn2", "d_h3_pred">>)

GateLayers == DiscriminatorLayers \o Plain(<<"linear">>)

\* A stride-2 convolution halves the extent (rounding up).
Down2(n) == (n + 1) \div 2

gate(image, site, outer, outer_reuse, num_classes, reuse, name, store) ==
    LET st == BuildLayers(GateLayers, <<outer, name>>, reuse, outer_reuse, store)
        probs == Tensor("softmax", num_classes, <<image>>,
                        <<image.shape[1], num_classes, 1, 1>>)
    IN  Built(st, probs,
              <<BuildEvent("gate", site, <<outer, name>>, reuse, image, <<>>, "", st)>>)

discriminator(image, site, outer, outer_reuse, reuse, name, store) ==
    LET st == BuildLayers(DiscriminatorLayers, <<outer, name>>, reuse,
                          outer_reuse, store)
        h4 == Tensor("discriminator", 0, <<image>>,
                     <<image.shape[1], Down2(Down2(Down2(image.shape[2]))),
                       Down2(Down2(Down2(image.shape[3]))), 1>>)
    IN  Built(st, h4,
              <<BuildEvent("discriminator", site, <<outer, name>>, reuse, image,
                           <<>>, "", st)>>)

\* ---- generator_resnet: the chain of residual blocks
NumResBlocks == 9
RName(k) == <<"r1", "r2", "r3", "r4", "r5", "r6", "r7", "r8", "r9">>[k]
BlockScope(k) ==
    <<"g_r1", "g_r2", "g_r3", "g_r4", "g_r5", "g_r6", "g_r7", "g_r8", "g_r9">>[k]

ResGuardExact(k, d) == d = k

\* The condition of the k-th `if res_depth ...:`.
ResGuard(k, d) == IF k = NumResBlocks THEN d = NumResBlocks ELSE d >= k

\* The Python name the k-th block reads.
ResInput(k) == IF k = 1 THEN "c3" ELSE RName(k - 1)

\* rn = c3, then the nine guarded blocks in order; reading a local name that
\* no executed statement has bound raises NameError.
RECURSIVE ResChainFrom(_, _, _)
ResChainFrom(k, d, st) ==
    IF k > NumResBlocks \/ st.err # "" THEN st
    ELSE IF ~ResGuard(k, d) THEN ResChainFrom(k + 1, d, st)
    ELSE IF ResInput(k) \notin st.defined
         THEN [st EXCEPT !.err = "NameError"]
         ELSE ResChainFrom(k + 1, d,
                  [st EXCEPT !.defined = @ \cup {RName(k)},
                             !.rn = RName(k),
                             !.blocks = Append(@, [name |-> BlockScope(k),
                                                   input |-> ResInput(k),
                                                   output |-> RName(k)])])

ResChain(d) ==
    ResChainFrom(1, d, [defined |-> {"c3"}, rn |-> "c3", blocks |-> <<>>, err |-> ""])

ResBlockParts == <<"_c1", "_bn1", "_c2", "_bn2">>

ResBlockLayers(blocks) ==
    [i \in 1..(4 * Len(blocks)) |->
        <<blocks[((i - 1) \div 4) + 1].name, ResBlockParts[((i - 1) % 4) + 1]>>]

ResnetEncoderLayers ==
    Plain(<<"g_e1_c", "g_e1_bn", "g_e2_c", "g_e2_bn", "g_e3_c", "g_e3_bn">>)

ResnetDecoderLayers ==
    Plain(<<"g_d1_dc", "g_d1_bn", "g_d2_dc", "g_d2_bn", "g_pred_c">>)

generator_resnet(image, site, outer, outer_reuse, res_depth, output_c_dim, reuse, name, store) ==
    LET chain == ResChain(res_depth)
        layers == ResnetEncoderLayers \o ResBlockLayers(chain.blocks)
                  \o (IF chain.err = "" THEN ResnetDecoderLayers ELSE <<>>)
        st0 == BuildLayers(layers, <<outer, name>>, reuse, outer_reuse, store)
        st == IF st0.err = "" /\ chain.err # ""
              THEN [st0 EXCEPT !.err = chain.err] ELSE st0
        \* pred = clip_by_value(tanh(conv2d(d2, output_c_dim, ...)) + image, -1, 1)
        pred == Tensor("generator_resnet", res_depth, <<image>>,
                       BroadcastShape([image.shape EXCEPT ![4] = output_c_dim],
                                      image.shape))
    IN  Built(st, pred,
              <<BuildEvent("generator_resnet", site, <<outer, name>>, reuse, image,
                           chain.blocks, chain.rn, st)>>)

\* tf.expand_dims(image[:,:,:,k], -1)
Channel(image, k) ==
    Tensor("channel", k, <<image>>, [image.shape EXCEPT ![4] = 1])

SeparateReuseAll(reuse, call) == reuse

\* The reuse argument of the call-th generator_resnet call (call = 1, 2, 3).
SeparateReuse(reuse, call) == IF call = 1 THEN reuse ELSE TRUE

generator_separate_resnet(image, site, outer, outer_reuse, res_depth, reuse, name, store) ==
    LET g0 == generator_resnet(Channel(image, 0), site, outer, outer_reuse,
                               res_depth, 1, SeparateReuse(reuse, 1), name, store)
        g1 == generator_resnet(Channel(image, 1), site, outer, outer_reuse,
                               res_depth, 1, SeparateReuse(reuse, 2), name, g0.store)
        g2 == generator_resnet(Channel(image, 2), site, outer, outer_reuse,
                               res_depth, 1, SeparateReuse(reuse, 3), name, g1.store)
        pred == Tensor("concat", 3, <<g0.out, g1.out, g2.out>>,
                       [image.shape EXCEPT
                          ![4] = g0.out.shape[4] + g1.out.shape[4] + g2.out.shape[4]])
    IN  IF g0.err # "" THEN [g0 EXCEPT !.out = NoTensor]
        ELSE IF g1.err # ""
             THEN [g1 EXCEPT !.out = NoTensor, !.events = g0.events \o @]
        ELSE IF g2.err # ""
             THEN [g2 EXCEPT !.out = NoTensor, !.events = g0.events \o g1.events \o @]
        ELSE [err |-> "", store |-> g2.store, out |-> pred,
              events |-> g0.events \o g1.events \o g2.events]

\* ------------------------------------------------------ graph arithmetic
Mul(a, b) == Tensor("mul", 0, <<a, b>>, BroadcastShape(a.shape, b.shape))
Add(a, b) == Tensor("add", 0, <<a, b>>, BroadcastShape(a.shape, b.shape))

\* probs[:, i, None, None, None]
ProbColumn(probs, i) == Tensor("column", i, <<probs>>, <<probs.shape[1], 1, 1, 1>>)

\* tf.add_n(inputs): every input must have the same shape.
AddNOk(xs) == \A i \in 1..Len(xs) : xs[i].shape = xs[1].shape
AddN(xs) == Tensor("add_n", 0, xs, xs[1].shape)

\* tf.nn.sigmoid(tf.reduce_mean(d_in_logits, [1, 2, 3]))[:, None, None, None]
Confidence(logits) ==
    Tensor("sigmoid", 0, <<Tensor("reduce_mean", 0, <<logits>>, <<logits.shape[1], 1, 1, 1>>)>>,
           <<logits.shape[1], 1, 1, 1>>)

\* 1 - d_in_sigmoid[:, None, None, None]
OneMinus(c) == Tensor("one_minus", 0, <<c>>, c.shape)

GateBlendSwapped(conf, raw, best) == Add(Mul(conf, best), Mul(OneMinus(conf), raw))

\* tf.add(d_in_sigmoid[...] * images, (1 - d_in_sigmoid[...]) * filtered_images)
GateBlend(conf, raw, best) == Add(Mul(conf, raw), Mul(OneMinus(conf), best))

GateBlendOk(conf, raw, best) ==
    /\ Broadcastable(conf.shape, raw.shape)
    /\ Broadcastable(conf.shape, best.shape)
    /\ Broadcastable(BroadcastShape(conf.shape, raw.shape),
                     BroadcastShape(conf.shape, best.shape))

\* ------------------------------------------------------------------- state
VARIABLES
    module,            \* which gated_denoise: denoise.py or evaluator.py
    FLAGS,             \* the flag values read by gated_denoise
    is_training,       \* argument is_training
    noisy_batch_size,  \* argument noisy_batch_size
    raw,               \* argument images, as passed in
    outer_reuse,       \* reuse attribute of the variable scope of the caller
    pc,                \* position in gated_denoise
    err,               \* the exception that ended the build ("": none)
    images,            \* local images
    filtered_images,   \* local filtered_images
    denoised_images,   \* local denoised_images
    noisy_images,      \* local noisy_images
    original_images,   \* local original_images
    probs,             \* local probs
    d_in_logits,       \* local d_in_logits (before pooling)
    losses_dict,       \* losses_dict: name |-> loss term
    summaries_dict,    \* the keys assigned in summaries_dict, in order
    store,             \* names registered in the variable store
    builds,            \* the network builds made by this clone, in order
    clone,             \* index of the clone whose gated_denoise is being built
    store_before,      \* the variable store when this clone's build began
    px                 \* fixed-point evaluation state of SpecBlend/SpecClip/SpecMix

vars == <<module, FLAGS, is_training, noisy_batch_size, raw, outer_reuse, pc, err,
          images, filtered_images, denoised_images, noisy_images, original_images,
          probs, d_in_logits, losses_dict, summaries_dict, store, builds, clone,
          store_before, px>>

args == <<module, FLAGS, is_training, noisy_batch_size, raw, outer_reuse, clone,
          store_before, px>>

FlagSets ==
    [average_filter : BOOLEAN, mixture_of_filters : BOOLEAN,
     filter_size : 1..MaxFilterSize, denoise : BOOLEAN,
     generator_separate_channel : BOOLEAN, res_depth : 0..MaxResDepth,
     denoise_discrim : BOOLEAN, discrim : BOOLEAN]

NoPx == [kind |-> "none"]

Init ==
    /\ module \in Modules
    /\ FLAGS \in FlagSets
    /\ is_training \in BOOLEAN
    /\ module = "evaluator" => ~is_training
    /\ noisy_batch_size \in 1..MaxNoisy
    /\ ~is_training => noisy_batch_size = 1
    /\ \E b \in 1..MaxBatch, hw \in ImageSizes :
          raw = Tensor("input", 0, <<>>, <<b, hw[1], hw[2], 3>>)
    /\ outer_reuse = FALSE
    /\ pc = "start"
    /\ err = ""
    /\ images = raw
    /\ filtered_images = NoTensor
    /\ denoised_images = NoTensor
    /\ noisy_images = NoTensor
    /\ original_images = NoTensor
    /\ probs = NoTensor
    /\ d_in_logits = NoTensor
    /\ losses_dict = <<>>
    /\ summaries_dict = <<>>
    /\ store = {}
    /\ builds = <<>>
    /\ clone = 0
    /\ store_before = {}
    /\ px = NoPx

TrainingAlways == module = "denoise"

\* if is_training: (evaluator.py's gated_denoise has no training code)
Training == module = "denoise" /\ is_training

\* ---- the scalar loss terms of the graph
\* A criterion's output, a product with a flag, a sum, a division by 2.
Loss(op, k, ins) == [op |-> op, k |-> k, ins |-> ins]
Criterion(name) == Loss("criterion", name, <<>>)
LossScale(factor, l) == Loss("scale", factor, <<l>>)
LossAdd(a, b) == Loss("sum", "", <<a, b>>)
LossHalf(l) == Loss("half", "", <<l>>)

\* d[key] = value
SetItem(d, key, value) ==
    [x \in DOMAIN d \cup {key} |-> IF x = key THEN value ELSE d[x]]

GLossUnscaled(denoise_sim_loss) == LossScale("one", denoise_sim_loss)

\* g_loss = FLAGS.denoise_loss_factor * denoise_sim_loss
GLoss(denoise_sim_loss) == LossScale("denoise_loss_factor", denoise_sim_loss)

\* g_loss += FLAGS.denoise_gan_loss_factor * g_gan_loss
GLossGan(g_loss, g_gan_loss) ==
    LossAdd(g_loss, LossScale("denoise_gan_loss_factor", g_gan_loss))

\* d_loss = FLAGS.denoise_gan_loss_factor * (d_loss_real + d_loss_fake) / 2
DLoss(d_loss_real, d_loss_fake) ==
    LossHalf(LossScale("denoise_gan_loss_factor", LossAdd(d_loss_real, d_loss_fake)))

\* sce_criterion(logits, labels) with labels = tf.ones_like(logits) (label 1) or
\* tf.zeros_like(logits) (label 0): the logits it reads and the label it gives.
SceCriterion(name, logits, label) == Loss("criterion", name, <<logits, label>>)

DInRealLogitsNoisy(logits, n) == SliceLo(logits, n)

\* d_in_logits[noisy_batch_size:], compared with ones
DInRealLogits(logits, n) == SliceHi(logits, n)

\* d_in_logits[:noisy_batch_size], compared with zeros
DInFakeLogits(logits, n) == SliceLo(logits, n)

\* d_in_loss = FLAGS.discrim_loss_factor * (d_in_loss_real + d_in_loss_fake) / 2
DInLoss(d_in_loss_real, d_in_loss_fake) ==
    LossHalf(LossScale("discrim_loss_factor", LossAdd(d_in_loss_real, d_in_loss_fake)))

\* The keys a stage writes: `always`, then `training` when is_training.
Summaries(always, training) == always \o (IF Training THEN training ELSE <<>>)

\* ----------------------------------------------------------------- actions
\* denoise.py 49-64, evaluator.py 160-169
Prologue ==
    /\ pc = "start"
    /\ losses_dict' = <<>>
    /\ summaries_dict' = Summaries(<<"prefiltered_noisy_images">>,
                                   <<"prefiltered_clean_images">>)
    /\ noisy_images' = IF Training THEN SliceLo(images, noisy_batch_size) ELSE NoTensor
    /\ original_images' = IF Training THEN SliceHi(images, noisy_batch_size) ELSE NoTensor
    /\ pc' = "filter"
    /\ UNCHANGED <<args, err, images, filtered_images, denoised_images, probs,
                   d_in_logits, store, builds>>

\* <<scope entered by gated_denoise, name passed to the builder>>
GateScopeAsDiscriminator == <<"input_discrim", "discriminator">>
FilterGateScope == <<"filter_gate", "gate">>
GeneratorScope == <<"denoise", "generator">>
AdversaryScope == <<"denoise", "discriminator">>
InputDiscrimScopeAsAdversary == <<"denoise", "discriminator">>
InputDiscrimScope == <<"input_discrim", "discriminator">>

MixtureWindowsFlag(filter_size) == <<2, 3, filter_size>>

\* The window sizes of filtered_images0, filtered_images1, filtered_images2.
MixtureWindows(filter_size) == <<2, 3, 4>>

\* filtered_images of the mixture of filters, given probs.
Mixture(p, x, filter_size) ==
    <<Mul(ProbColumn(p, 0), x),
      Mul(ProbColumn(p, 1), average_filter(x, MixtureWindows(filter_size)[1])),
      Mul(ProbColumn(p, 2), average_filter(x, MixtureWindows(filter_size)[2])),
      Mul(ProbColumn(p, 3), average_filter(x, MixtureWindows(filter_size)[3]))>>

\* denoise.py 66-85, evaluator.py 171-187
FilterStage ==
    /\ pc = "filter"
    /\ LET g == gate(images, "filter_gate", FilterGateScope[1], outer_reuse, 4, FALSE,
                     FilterGateScope[2], store)
           terms == Mixture(g.out, images, FLAGS.filter_size)
           wrote == summaries_dict \o Summaries(<<"filtered_noisy_images">>,
                                                <<"filtered_clean_images">>)
       IN  IF ~FLAGS.average_filter
           THEN /\ filtered_images' = images
                /\ pc' = "denoise"
                /\ UNCHANGED <<err, probs, summaries_dict, store, builds>>
           ELSE IF ~FLAGS.mixture_of_filters
           THEN /\ filtered_images' = average_filter(images, FLAGS.filter_size)
                /\ summaries_dict' = wrote
                /\ pc' = "denoise"
                /\ UNCHANGED <<err, probs, store, builds>>
           ELSE /\ store' = g.store
                /\ builds' = builds \o g.events
                /\ IF g.err # ""
                   THEN /\ err' = g.err /\ pc' = "failed"
                        /\ UNCHANGED <<probs, filtered_images, summaries_dict>>
                   ELSE IF ~AddNOk(terms)
                   THEN /\ err' = "ValueError: add_n shapes" /\ pc' = "failed"
                        /\ probs' = g.out
                        /\ UNCHANGED <<filtered_images, summaries_dict>>
                   ELSE /\ probs' = g.out
                        /\ filtered_images' = AddN(terms)
                        /\ summaries_dict' = wrote
                        /\ pc' = "denoise"
                        /\ UNCHANGED err
    /\ UNCHANGED <<args, images, denoised_images, noisy_images, original_images,
                   d_in_logits, losses_dict>>

\* abs_criterion(in_, target): in_ - target must broadcast.
AbsCriterionOk(in_, target) == Broadcastable(in_.shape, target.shape)

\* denoise.py 87-98, evaluator.py 189-194
GeneratorStage ==
    /\ pc = "denoise"
    /\ LET g == IF FLAGS.generator_separate_channel
                THEN generator_separate_resnet(filtered_images, "generator",
                         GeneratorScope[1], outer_reuse, FLAGS.res_depth, FALSE,
                         GeneratorScope[2], store)
                ELSE generator_resnet(filtered_images, "generator", GeneratorScope[1],
                         outer_reuse, FLAGS.res_depth, 3, FALSE, GeneratorScope[2],
                         store)
       IN  IF ~FLAGS.denoise
           THEN /\ pc' = "gate"
                /\ UNCHANGED <<err, denoised_images, losses_dict, summaries_dict,
                               store, builds>>
           ELSE /\ store' = g.store
                /\ builds' = builds \o g.events
                /\ IF g.err # ""
                   THEN /\ err' = g.err /\ pc' = "failed"
                        /\ UNCHANGED <<denoised_images, losses_dict, summaries_dict>>
                   ELSE /\ denoised_images' = g.out
                        /\ IF ~Training
                           THEN /\ pc' = "adversary"
                                /\ UNCHANGED <<err, losses_dict, summaries_dict>>
                           ELSE IF ~AbsCriterionOk(SliceLo(g.out, noisy_batch_size),
                                                   original_images)
                           THEN /\ err' = "ValueError: sim_loss shapes"
                                /\ pc' = "failed"
                                /\ UNCHANGED <<losses_dict, summaries_dict>>
                           ELSE /\ losses_dict' =
                                       SetItem(losses_dict, "g_loss",
                                               GLoss(Criterion("g_loss/sim_loss")))
                                /\ summaries_dict' =
                                       Append(summaries_dict, "g_loss/sim_loss")
                                /\ pc' = "adversary"
                                /\ UNCHANGED err
    /\ UNCHANGED <<args, images, filtered_images, noisy_images, original_images,
                   probs, d_in_logits>>

\* The reuse argument of the second discriminator call of the denoise stage.
AdversaryRealReuse == TRUE

\* denoise.py 99-120, evaluator.py 195-197
AdversaryStage ==
    /\ pc = "adversary"
    /\ LET fake == Concat3(noisy_images, denoised_images)
           real == Concat3(noisy_images, original_images)
           d_denoised == discriminator(fake, "adversary", AdversaryScope[1],
                                       outer_reuse, FALSE, AdversaryScope[2], store)
           d_original == discriminator(real, "adversary", AdversaryScope[1],
                                       outer_reuse, AdversaryRealReuse,
                                       AdversaryScope[2], d_denoised.store)
       IN  IF ~FLAGS.denoise_discrim
           THEN /\ pc' = "denoise_end"
                /\ UNCHANGED <<err, losses_dict, summaries_dict, store, builds>>
           ELSE IF noisy_images = NoTensor
           THEN /\ err' = "NameError: noisy_images" /\ pc' = "failed"
                /\ UNCHANGED <<losses_dict, summaries_dict, store, builds>>
           ELSE IF ~ConcatOk(noisy_images, denoised_images)
           THEN /\ err' = "ValueError: concat noisy_and_denoised" /\ pc' = "failed"
                /\ UNCHANGED <<losses_dict, summaries_dict, store, builds>>
           ELSE IF module = "evaluator"
           THEN /\ err' = "NameError: denoised" /\ pc' = "failed"
                /\ UNCHANGED <<losses_dict, summaries_dict, store, builds>>
           ELSE IF d_denoised.err # ""
           THEN /\ err' = d_denoised.err /\ pc' = "failed"
                /\ store' = d_denoised.store
                /\ builds' = builds \o d_denoised.events
                /\ UNCHANGED <<losses_dict, summaries_dict>>
           ELSE IF ~is_training
           THEN /\ pc' = "denoise_end"
                /\ store' = d_denoised.store
                /\ builds' = builds \o d_denoised.events
                /\ UNCHANGED <<err, losses_dict, summaries_dict>>
           ELSE IF ~ConcatOk(noisy_images, original_images)
           THEN /\ err' = "ValueError: concat noisy_and_original" /\ pc' = "failed"
                /\ store' = d_denoised.store
                /\ builds' = builds \o d_denoised.events
                /\ UNCHANGED <<losses_dict, summaries_dict>>
           ELSE /\ store' = d_original.store
                /\ builds' = builds \o d_denoised.events \o d_original.events
                /\ IF d_original.err # ""
                   THEN /\ err' = d_original.err /\ pc' = "failed"
                        /\ UNCHANGED <<losses_dict, summaries_dict>>
                   ELSE /\ losses_dict' =
                               SetItem(SetItem(losses_dict, "g_loss",
                                               GLossGan(losses_dict["g_loss"],
                                                        Criterion("g_gan_loss"))),
                                       "d_loss",
                                       DLoss(Criterion("d_loss_real"),
                                             Criterion("d_loss_fake")))
                        /\ summaries_dict' = summaries_dict \o <<"g_gan_loss", "d_loss">>
                        /\ pc' = "denoise_end"
                        /\ UNCHANGED err
    /\ UNCHANGED <<args, images, filtered_images, denoised_images, noisy_images,
                   original_images, probs, d_in_logits>>

KeepFiltered(filtered, denoised) == filtered

\* filtered_images = denoised_images
AfterDenoise(filtered, denoised) == denoised

\* denoise.py 122-128, evaluator.py 199-200
DenoiseEnd ==
    /\ pc = "denoise_end"
    /\ filtered_images' = AfterDenoise(filtered_images, denoised_images)
    /\ summaries_dict' =
           summaries_dict
           \o Summaries(<<>>, <<"g_loss">>)
           \o Summaries(<<"filtered_noisy_images">>, <<"filtered_clean_images">>)
    /\ pc' = "gate"
    /\ UNCHANGED <<args, err, images, denoised_images, noisy_images, original_images,
                   probs, d_in_logits, losses_dict, store, builds>>

\* denoise.py 130-151, evaluator.py 202-212
GateStage ==
    /\ pc = "gate"
    /\ LET d == discriminator(images, "input_gate", InputDiscrimScope[1], outer_reuse,
                              FALSE, InputDiscrimScope[2], store)
           conf == Confidence(d.out)
       IN  IF ~FLAGS.discrim
           THEN /\ images' = filtered_images
                /\ pc' = "epilogue"
                /\ UNCHANGED <<err, d_in_logits, losses_dict, summaries_dict, store,
                               builds>>
           ELSE /\ store' = d.store
                /\ builds' = builds \o d.events
                /\ IF d.err # ""
                   THEN /\ err' = d.err /\ pc' = "failed"
                        /\ UNCHANGED <<images, d_in_logits, losses_dict, summaries_dict>>
                   ELSE /\ d_in_logits' = d.out
                        /\ losses_dict' =
                               IF Training
                               THEN SetItem(losses_dict, "d_in_loss",
                                        DInLoss(
                                            SceCriterion("d_in_loss_real",
                                                DInRealLogits(d.out, noisy_batch_size), 1),
                                            SceCriterion("d_in_loss_fake",
                                                DInFakeLogits(d.out, noisy_batch_size), 0)))
                               ELSE losses_dict
                        /\ summaries_dict' = summaries_dict
                                             \o Summaries(<<>>, <<"d_in_loss">>)
                        /\ IF GateBlendOk(conf, images, filtered_images)
                           THEN /\ images' = GateBlend(conf, images, filtered_images)
                                /\ pc' = "epilogue"
                                /\ UNCHANGED err
                           ELSE /\ err' = "ValueError: blend shapes" /\ pc' = "failed"
                                /\ UNCHANGED images
    /\ UNCHANGED <<args, filtered_images, denoised_images, noisy_images,
                   original_images, probs>>

\* denoise.py 153-157, evaluator.py 214-216
Epilogue ==
    /\ pc = "epilogue"
    /\ summaries_dict' = summaries_dict
                         \o Summaries(<<"preprocessed_noisy_images">>,
                                      <<"preprocessed_clean_images">>)
    /\ pc' = "done"
    /\ UNCHANGED <<args, err, images, filtered_images, denoised_images, noisy_images,
                   original_images, probs, d_in_logits, losses_dict, store, builds>>

\* with tf.variable_scope(tf.get_variable_scope(), reuse=True if i > 0 else None)
CloneReuse(i) == i > 0

\* model_deploy.create_clones: the model function is called once per clone,
\* each call on the one variable store of the graph.
NextClone ==
    /\ pc = "done"
    /\ module = "denoise"
    /\ clone + 1 < MaxClones
    /\ clone' = clone + 1
    /\ outer_reuse' = CloneReuse(clone + 1)
    /\ store_before' = store
    /\ pc' = "start"
    /\ err' = ""
    /\ images' = raw
    /\ filtered_images' = NoTensor
    /\ denoised_images' = NoTensor
    /\ noisy_images' = NoTensor
    /\ original_images' = NoTensor
    /\ probs' = NoTensor
    /\ d_in_logits' = NoTensor
    /\ losses_dict' = <<>>
    /\ summaries_dict' = <<>>
    /\ builds' = <<>>
    /\ UNCHANGED <<module, FLAGS, is_training, noisy_batch_size, raw, store, px>>

Next ==
    \/ Prologue
    \/ FilterStage
    \/ GeneratorStage
    \/ AdversaryStage
    \/ DenoiseEnd
    \/ GateStage
    \/ Epilogue
    \/ NextClone

Spec == Init /\ [][Next]_vars

\* ================================================================== claims
EventsAt(site) == SelectSeq(builds, LAMBDA e : e.site = site)
ScopesIn(names) == {<<v[1], v[2]>> : v \in names}
GateStagePassed == pc \in {"epilogue", "done"}

\* ---- C2
\* The filtered batch of the flags: the mixture, the plain average, or raw.
C2_FilteredBatch ==
    IF ~FLAGS.average_filter THEN raw
    ELSE IF FLAGS.mixture_of_filters
         THEN AddN(Mixture(probs, raw, FLAGS.filter_size))
         ELSE average_filter(raw, FLAGS.filter_size)

C2_GeneratorOutputOf(x, t) ==
    IF FLAGS.generator_separate_channel
    THEN /\ t.op = "concat"
         /\ Len(t.ins) = 3
         /\ \A k \in 1..3 : /\ t.ins[k].op = "generator_resnet"
                            /\ t.ins[k].ins = <<Channel(x, k - 1)>>
    ELSE /\ t.op = "generator_resnet"
         /\ t.ins = <<x>>

\* C2: once the gate stage is over, the best candidate (filtered_images) is
\* the generator output fed with the filtered batch if denoise is set, else
\* the filtered batch if average_filter is set, else the raw batch; with
\* discrim off the returned image is that candidate, with discrim on the
\* blend mixes raw with that candidate.
C2_BestCandidate ==
    GateStagePassed =>
        /\ IF FLAGS.denoise
           THEN C2_GeneratorOutputOf(C2_FilteredBatch, filtered_images)
           ELSE filtered_images = C2_FilteredBatch
        /\ ~FLAGS.discrim => images = filtered_images
        /\ FLAGS.discrim =>
              /\ images.op = "add"
              /\ {images.ins[1].ins[2], images.ins[2].ins[2]} = {raw, filtered_images}

C2_Witness ==
    /\ pc = "done"
    /\ FLAGS.denoise /\ FLAGS.average_filter /\ ~FLAGS.discrim
    /\ images = filtered_images
    /\ images.op = "generator_resnet"
    /\ images.ins[1].op = "avg_pool"

\* ---- C3
\* C3: in training on a doubled batch with denoise and denoise_discrim, once
\* the denoise stage is over the adversary has been built exactly twice under
\* denoise/discriminator, first with reuse=False and then with reuse=True,
\* the second build creating nothing and reading the variables of the first.
C3_AdversaryBuiltTwice ==
    ( /\ Training /\ FLAGS.denoise /\ FLAGS.denoise_discrim
      /\ raw.shape[1] = 2 * noisy_batch_size
      /\ pc \in {"denoise_end", "gate", "epilogue", "done", "failed"} )
    => LET a == EventsAt("adversary")
       IN  /\ Len(a) = 2
           /\ a[1].scope = <<"denoise", "discriminator">>
           /\ a[2].scope = <<"denoise", "discriminator">>
           /\ ~a[1].reuse /\ a[2].reuse
           /\ a[1].err = "" /\ a[2].err = ""
           /\ a[2].created = {}
           /\ a[2].used = a[1].used

\* ---- C4
\* C4: no variable name is created, read or asked for by builds made for two
\* different purposes (filter gate, generator, denoise adversary, input gate).
C4_PurposesDisjoint ==
    \A i, j \in 1..Len(builds) :
        builds[i].site # builds[j].site
            => builds[i].touched \cap builds[j].touched = {}

C4_Witness ==
    /\ pc = "done"
    /\ {builds[i].site : i \in 1..Len(builds)} = {"filter_gate", "generator", "input_gate"}
    /\ \A i \in 1..Len(builds) : builds[i].touched # {}

\* ---- C5
C5_ExpectedScopes ==
    (IF FLAGS.average_filter /\ FLAGS.mixture_of_filters
        THEN {<<"filter_gate", "gate">>} ELSE {})
    \cup (IF FLAGS.denoise THEN {<<"denoise", "generator">>} ELSE {})
    \cup (IF FLAGS.denoise /\ FLAGS.denoise_discrim
             THEN {<<"denoise", "discriminator">>} ELSE {})
    \cup (IF FLAGS.discrim THEN {<<"input_discrim", "discriminator">>} ELSE {})

\* C5: after a successful invocation the weight scopes in the store are
\* exactly those the flags call for.
C5_ScopesCreated == pc = "done" => ScopesIn(store) = C5_ExpectedScopes

C5_Witness ==
    /\ pc = "done"
    /\ ScopesIn(store) = {<<"filter_gate", "gate">>, <<"denoise", "generator">>,
                          <<"input_discrim", "discriminator">>}

\* ---- C6
\* C6: generator_separate_resnet makes exactly three generator_resnet builds,
\* on channels 0, 1, 2 in that order and under one scope; the first (called
\* with reuse=False) creates the weights, the other two create none and read
\* the same set; the outputs are concatenated in channel order to 3 channels.
\* (A builder called with reuse=False inside a scope in reuse mode stops at
\* its assertion before it builds anything: clones after the first.)
C6_SeparateChannels ==
    LET g == EventsAt("generator")
    IN  (FLAGS.generator_separate_channel /\ Len(g) > 0
         /\ g[1].err # "AssertionError"
         /\ pc \notin {"start", "filter", "denoise"})
        => /\ Len(g) = 3
           /\ \A k \in 1..3 : /\ g[k].fn = "generator_resnet"
                              /\ g[k].err = ""
                              /\ g[k].input.op = "channel"
                              /\ g[k].input.k = k - 1
                              /\ g[k].scope = g[1].scope
                              /\ g[k].used = g[1].created
           /\ ~g[1].reuse /\ g[2].reuse /\ g[3].reuse
           /\ g[1].created # {} /\ g[2].created = {} /\ g[3].created = {}
           /\ denoised_images.op = "concat"
           /\ denoised_images.shape[4] = 3
           /\ \A k \in 1..3 : denoised_images.ins[k].ins = <<g[k].input>>

C6_Witness ==
    /\ pc = "done"
    /\ FLAGS.denoise /\ FLAGS.generator_separate_channel
    /\ Len(EventsAt("generator")) = 3
    /\ denoised_images.shape[4] = 3

\* ---- C7
\* C7: for res_depth d in 0..9 a generator_resnet build has exactly d residual
\* blocks g_r1..g_rd, the first reading c3 and each other one reading its
\* predecessor's output, and the first upsampling stage reads the last
\* block's output (c3 when d = 0); no name is read before it is bound.
\* (A build stopped by the scope assertion has not reached the blocks.)
C7_ResidualChain ==
    \A i \in 1..Len(builds) :
        (builds[i].fn = "generator_resnet" /\ FLAGS.res_depth <= NumResBlocks
         /\ builds[i].err # "AssertionError")
        => LET b == builds[i].blocks
               d == FLAGS.res_depth
           IN  /\ builds[i].err = ""
               /\ Len(b) = d
               /\ \A k \in 1..Len(b) :
                     /\ b[k].name = BlockScope(k)
                     /\ b[k].input = IF k = 1 THEN "c3" ELSE b[k - 1].output
               /\ builds[i].d1_input = IF d = 0 THEN "c3" ELSE b[d].output

C7_Witness ==
    /\ pc = "done"
    /\ FLAGS.res_depth = NumResBlocks
    /\ \E i \in 1..Len(builds) :
          /\ builds[i].fn = "generator_resnet"
          /\ Len(builds[i].blocks) = NumResBlocks
          /\ builds[i].d1_input = "r9"

\* ---- C9
C9_PlainFilterDone ==
    pc = "denoise" /\ FLAGS.average_filter /\ ~FLAGS.mixture_of_filters

\* C9 as stated: the plain average filter quarters height and width.
C9_QuarterSize ==
    C9_PlainFilterDone =>
        /\ 4 * filtered_images.shape[2] = raw.shape[2]
        /\ 4 * filtered_images.shape[3] = raw.shape[3]

\* C9: average_filter pools with stride 1 and SAME padding for every filter
\* size, so the filtered batch has the shape of its input.
C9_SameSize ==
    C9_PlainFilterDone =>
        /\ filtered_images.op = "avg_pool"
        /\ filtered_images.k = FLAGS.filter_size
        /\ filtered_images.shape = raw.shape

C9_Witness ==
    /\ C9_PlainFilterDone
    /\ raw.shape = <<2, 256, 256, 3>>
    /\ filtered_images.shape = <<2, 256, 256, 3>>

\* ---- C17
\* C17: when a gated_denoise build has failed, the variables registered in
\* the store are those registered before the build began: nothing the failed
\* build created remains.
C17_FailedBuildLeavesNothing == pc = "failed" => store = store_before

\* ---- C18
\* C18: in every clone after the first, built under a variable scope in reuse
\* mode, gated_denoise does not fail (in particular no reuse=False builder's
\* assertion fails), and once it has returned it has registered no variable
\* of its own: its builds created nothing and read the first clone's
\* variables.
C18_CloneSafe ==
    clone > 0 =>
        /\ pc # "failed"
        /\ \A i \in 1..Len(builds) : builds[i].err # "AssertionError"
        /\ pc = "done" =>
              /\ store = store_before
              /\ \A i \in 1..Len(builds) :
                    builds[i].created = {} /\ builds[i].used \subseteq store_before

\* ---- C20
\* C20: no name is assigned twice in summaries_dict within one invocation.
C20_SummariesWrittenOnce ==
    \A i, j \in 1..Len(summaries_dict) :
        i # j => summaries_dict[i] # summaries_dict[j]

\* ---- C21
\* The examples (rows of the batch axis) a slice of d_in_logits keeps.
C21_Rows(t) ==
    IF t.op = "slice_lo" THEN 1..Min(t.k, t.ins[1].shape[1])
    ELSE (t.k + 1)..t.ins[1].shape[1]

\* The two criterion terms of d_in_loss, and the labels they give example i.
C21_Terms == losses_dict["d_in_loss"].ins[1].ins[1].ins
C21_Labels(i) ==
    {C21_Terms[j].ins[2] : j \in {k \in 1..2 : i \in C21_Rows(C21_Terms[k].ins[1])}}

\* C21: d_in_loss is in losses_dict only when is_training (and discrim) is
\* set; when the gate stage has run in training, every example of the batch
\* has exactly one label, 1 for index >= noisy_batch_size (clean half) and 0
\* below it (noisy half), and the blend gives weight sigmoid(logit) to the raw
\* image.
C21_GateLabels ==
    /\ "d_in_loss" \in DOMAIN losses_dict => (is_training /\ FLAGS.discrim)
    /\ (Training /\ FLAGS.discrim /\ pc \in {"epilogue", "done"}) =>
          /\ "d_in_loss" \in DOMAIN losses_dict
          /\ \A i \in 1..raw.shape[1] :
                C21_Labels(i) = IF i > noisy_batch_size THEN {1} ELSE {0}
          /\ images = GateBlend(Confidence(d_in_logits), raw, filtered_images)

C21_Witness ==
    /\ Training /\ FLAGS.discrim /\ pc = "done"
    /\ raw.shape[1] = 2 /\ noisy_batch_size = 1
    /\ C21_Labels(1) = {0} /\ C21_Labels(2) = {1}

\* ---- C22
\* C22: in training on a batch of 2n examples with noisy_batch_size = n, the
\* operands of the similarity loss and of the two channel concatenations of
\* the denoise stage have equal batch size n, so none of them fails on its
\* shapes.
C22_EqualBatchOperands ==
    (Training /\ FLAGS.denoise /\ raw.shape[1] = 2 * noisy_batch_size) =>
        /\ err \notin {"ValueError: sim_loss shapes",
                       "ValueError: concat noisy_and_denoised",
                       "ValueError: concat noisy_and_original"}
        /\ (FLAGS.denoise_discrim /\ denoised_images # NoTensor) =>
              /\ noisy_images.shape[1] = noisy_batch_size
              /\ denoised_images.shape[1] = noisy_batch_size

\* ---- C26
C26_ExpectedKeys ==
    (IF is_training /\ FLAGS.denoise THEN {"g_loss"} ELSE {})
    \cup (IF is_training /\ FLAGS.denoise /\ FLAGS.denoise_discrim
             THEN {"d_loss"} ELSE {})
    \cup (IF is_training /\ FLAGS.discrim THEN {"d_in_loss"} ELSE {})

\* C26: the losses_dict gated_denoise returns has the keys g_loss iff
\* is_training and denoise, d_loss iff is_training and denoise and
\* denoise_discrim, d_in_loss iff is_training and discrim, and no other; it is
\* empty when is_training is false; and in training on a doubled batch every
\* flag combination does return its dict (first clone).
C26_LossKeys ==
    /\ pc = "done" => DOMAIN losses_dict = C26_ExpectedKeys
    /\ ~is_training => DOMAIN losses_dict = {}
    /\ (Training /\ clone = 0 /\ raw.shape[1] = 2 * noisy_batch_size) =>
          pc # "failed"

\* ---- C27
\* C27: with is_training false (first clone), the build ends by returning a
\* blended image for every flag combination except those with denoise and
\* denoise_discrim; in exactly those it fails with NameError on noisy_images,
\* after the generator was built and with no discriminator built.
C27_EvalBuild ==
    (~is_training /\ clone = 0 /\ pc \in {"done", "failed"}) =>
        IF FLAGS.denoise /\ FLAGS.denoise_discrim
        THEN /\ pc = "failed" /\ err = "NameError: noisy_images"
             /\ \E i \in 1..Len(builds) :
                   builds[i].fn = "generator_resnet" /\ builds[i].err = ""
             /\ \A i \in 1..Len(builds) : builds[i].fn # "discriminator"
        ELSE /\ pc = "done" /\ err = ""
             /\ images # NoTensor /\ images.shape = raw.shape

C27_Witness ==
    /\ ~is_training /\ clone = 0 /\ module = "evaluator"
    /\ FLAGS.denoise /\ FLAGS.denoise_discrim /\ FLAGS.generator_separate_channel
    /\ FLAGS.discrim
    /\ pc = "failed" /\ err = "NameError: noisy_images"
    /\ Len(builds) = 3

\* ======================================================= running the graph
\* Values are rationals <<numerator, denominator>>, denominator > 0, in lowest
\* terms.
PixScale == 2          \* a pixel level v stands for v / PixScale
ConfDen == 2           \* confidence levels are k / ConfDen, k in 0..ConfDen
MaxPre == 2            \* the last convolution's output ranges over -MaxPre..MaxPre
MaxGateLogit == 1      \* a logit of the gate ranges over 0..MaxGateLogit
MaxFactor == 2         \* a loss factor flag ranges over 0..MaxFactor
MaxLoss == 2           \* a criterion's value ranges over 0..MaxLoss

Abs(n) == IF n < 0 THEN -n ELSE n

RECURSIVE Gcd(_, _)
Gcd(a, b) == IF b = 0 THEN a ELSE Gcd(b, a % b)

R(n, d) == LET g == Gcd(Abs(n), d) IN <<n \div g, d \div g>>
RAdd(a, b) == R(a[1] * b[2] + b[1] * a[2], a[2] * b[2])
RSub(a, b) == R(a[1] * b[2] - b[1] * a[2], a[2] * b[2])
RMul(a, b) == R(a[1] * b[1], a[2] * b[2])
RLe(a, b) == a[1] * b[2] <= b[1] * a[2]
RMin(a, b) == IF RLe(a, b) THEN a ELSE b
RMax(a, b) == IF RLe(a, b) THEN b ELSE a
ROne == <<1, 1>>
RZero == <<0, 1>>

RECURSIVE Pow(_, _)
Pow(b, n) == IF n = 0 THEN 1 ELSE b * Pow(b, n - 1)

\* tf.nn.tanh with the exponential taken to base 2:
\* tanh(x) = (4^x - 1) / (4^x + 1), odd in x.
Tanh(x) ==
    IF x >= 0 THEN R(Pow(4, x) - 1, Pow(4, x) + 1)
    ELSE R(1 - Pow(4, -x), Pow(4, -x) + 1)

\* tf.clip_by_value(v, lo, hi)
ClipByValue(v, lo, hi) == RMin(RMax(v, lo), hi)

ResnetPredUnclipped(pre, image) == RAdd(Tanh(pre), image)

\* pred = tf.nn.tanh(conv2d(...)); pred = tf.clip_by_value(pred+image, -1., 1.)
ResnetPred(pre, image) ==
    ClipByValue(RAdd(Tanh(pre), image), R(-1, 1), ROne)

RECURSIVE SumPow2(_)
SumPow2(l) == IF l = <<>> THEN 0 ELSE Pow(2, Head(l)) + SumPow2(Tail(l))

\* tf.nn.softmax(logits)[i], the exponential taken to base 2.
Softmax(logits, i) == R(Pow(2, logits[i]), SumPow2(logits))

\* The window of a SAME-padded pooling op of size f and stride s at output
\* position o over an axis of n cells: the cells of the input it covers.
PoolWindow(n, f, s, o) ==
    LET total == Max((SameOut(n, s) - 1) * s + f - n, 0)
        first == (o - 1) * s - (total \div 2) + 1
    IN  {i \in 1..n : first <= i /\ i <= first + f - 1}

\* Index into an operand that broadcasts against the result.
BroadcastIndex(x, idx) == [i \in 1..4 |-> IF x.shape[i] = 1 THEN 1 ELSE idx[i]]

Indices(shape) ==
    {<<b, i, j, c>> : b \in 1..shape[1], i \in 1..shape[2],
                      j \in 1..shape[3], c \in 1..shape[4]}

\* The value at idx of tensor t when the graph runs with the inputs, network
\* outputs and weights-dependent activations of env.
RECURSIVE EvalAt(_, _, _)
RECURSIVE SumOver(_, _, _, _)
SumOver(t, cells, idx, env) ==
    IF cells = {} THEN RZero
    ELSE LET p == CHOOSE q \in cells : TRUE
         IN  RAdd(EvalAt(t, <<idx[1], p[1], p[2], idx[4]>>, env),
                  SumOver(t, cells \ {p}, idx, env))

RECURSIVE SumTerms(_, _, _)
SumTerms(ts, idx, env) ==
    IF ts = <<>> THEN RZero
    ELSE RAdd(EvalAt(Head(ts), BroadcastIndex(Head(ts), idx), env),
              SumTerms(Tail(ts), idx, env))

EvalAt(t, idx, env) ==
    CASE t.op = "input" -> R(env.leaf[t.k + 1][idx], PixScale)
      [] t.op = "sigmoid" -> R(env.conf[idx[1]], ConfDen)
      [] t.op = "column" -> Softmax(env.logits[idx[1]], t.k + 1)
      [] t.op = "one_minus" -> RSub(ROne, EvalAt(t.ins[1], idx, env))
      [] t.op = "mul" ->
            RMul(EvalAt(t.ins[1], BroadcastIndex(t.ins[1], idx), env),
                 EvalAt(t.ins[2], BroadcastIndex(t.ins[2], idx), env))
      [] t.op \in {"add", "add_n"} -> SumTerms(t.ins, idx, env)
      [] t.op = "avg_pool" ->
            LET x == t.ins[1]
                rows == PoolWindow(x.shape[2], t.k, AvgPoolStrides[2], idx[2])
                cols == PoolWindow(x.shape[3], t.k, AvgPoolStrides[3], idx[3])
                sum == SumOver(x, rows \X cols, idx, env)
            IN  R(sum[1], sum[2] * Cardinality(rows) * Cardinality(cols))
      [] t.op = "generator_resnet" ->
            ResnetPred(env.pre[idx],
                       EvalAt(t.ins[1], BroadcastIndex(t.ins[1], idx), env))

Eval(t, env) == [idx \in Indices(t.shape) |-> EvalAt(t, idx, env)]

\* The value of a loss term when the criteria evaluate to env.value and the
\* flags are env.factor.
RECURSIVE EvalLoss(_, _)
EvalLoss(l, env) ==
    CASE l.op = "criterion" -> R(env.value[l.k], 1)
      [] l.op = "scale" ->
            RMul(R(IF l.k = "one" THEN 1 ELSE env.factor[l.k], 1),
                 EvalLoss(l.ins[1], env))
      [] l.op = "sum" -> RAdd(EvalLoss(l.ins[1], env), EvalLoss(l.ins[2], env))
      [] l.op = "half" -> RMul(EvalLoss(l.ins[1], env), R(1, 2))

\* ---- inputs of the runs
BlendShape == <<2, 1, 1, 2>>
ClipShape == <<1, 1, 1, 2>>
MixShape == <<1, 2, 3, 1>>

PixVals == {-PixScale, 1, PixScale}                 \* -1, 1/PixScale, 1
WideVals == PixVals \cup {-2 * PixScale, 2 * PixScale}   \* also -2 and 2
MixVals == {-PixScale, PixScale}

Leaf(k, shape) == Tensor("input", k, <<>>, shape)

PxRecord(kind, fs, leaf, conf, pre, logits) ==
    [kind |-> kind, phase |-> "in", fs |-> fs, leaf |-> leaf, conf |-> conf,
     pre |-> pre, logits |-> logits, out |-> <<>>]

BlendInputs ==
    {PxRecord("blend", 0, <<r, q>>, c, <<>>, <<>>) :
        r \in [Indices(BlendShape) -> PixVals],
        q \in [Indices(BlendShape) -> PixVals],
        c \in [1..BlendShape[1] -> 0..ConfDen]}

ClipInputs ==
    {PxRecord("clip", 0, <<x>>, <<>>, a, <<>>) :
        x \in [Indices(ClipShape) -> WideVals],
        a \in [Indices(ClipShape) -> -MaxPre..MaxPre]}

MixInputs ==
    {PxRecord("mix", f, <<x>>, <<>>, <<>>, l) :
        f \in 1..MaxFilterSize,
        x \in [Indices(MixShape) -> MixVals],
        l \in [1..MixShape[1] -> [1..4 -> 0..MaxGateLogit]]}

LossFactors == {"denoise_loss_factor", "denoise_gan_loss_factor", "discrim_loss_factor"}

Criteria ==
    {"g_loss/sim_loss", "g_gan_loss", "d_loss_real", "d_loss_fake", "d_in_loss_real",
     "d_in_loss_fake"}

\* What each entry of losses_dict is computed from.
LossReads(key) ==
    CASE key = "g_loss" ->
            [factors |-> {"denoise_loss_factor", "denoise_gan_loss_factor"},
             criteria |-> {"g_loss/sim_loss", "g_gan_loss"}]
      [] key = "d_loss" ->
            [factors |-> {"denoise_gan_loss_factor"},
             criteria |-> {"d_loss_real", "d_loss_fake"}]
      [] key = "d_in_loss" ->
            [factors |-> {"discrim_loss_factor"},
             criteria |-> {"d_in_loss_real", "d_in_loss_fake"}]

\* Flag and criterion values for one entry; what the entry does not read is 0.
LossInputsOf(key) ==
    {[kind |-> "loss", phase |-> "in", key |-> key, denoise_discrim |-> dd,
      factor |-> f, value |-> v, out |-> <<>>] :
        dd \in BOOLEAN,
        f \in {g \in [LossFactors -> 0..MaxFactor] :
                  \A n \in LossFactors \ LossReads(key).factors : g[n] = 0},
        v \in {w \in [Criteria -> 0..MaxLoss] :
                  \A n \in Criteria \ LossReads(key).criteria : w[n] = 0}}

LossInputs == UNION {LossInputsOf(key) : key \in {"g_loss", "d_loss", "d_in_loss"}}

DefaultFlags ==
    [average_filter |-> FALSE, mixture_of_filters |-> FALSE, filter_size |-> 1,
     denoise |-> FALSE, generator_separate_channel |-> FALSE, res_depth |-> 0,
     denoise_discrim |-> FALSE, discrim |-> FALSE]

InitRun ==
    /\ \/ px \in BlendInputs
       \/ px \in ClipInputs
       \/ px \in MixInputs
       \/ px \in {l \in LossInputs : l.key = "g_loss" \/ l.denoise_discrim}
    /\ module = "denoise"
    /\ FLAGS = DefaultFlags
    /\ is_training = FALSE
    /\ noisy_batch_size = 1
    /\ raw = NoTensor
    /\ outer_reuse = FALSE
    /\ pc = "run"
    /\ err = ""
    /\ images = NoTensor
    /\ filtered_images = NoTensor
    /\ denoised_images = NoTensor
    /\ noisy_images = NoTensor
    /\ original_images = NoTensor
    /\ probs = NoTensor
    /\ d_in_logits = NoTensor
    /\ losses_dict = <<>>
    /\ summaries_dict = <<>>
    /\ store = {}
    /\ builds = <<>>
    /\ clone = 0
    /\ store_before = {}

built == <<module, FLAGS, is_training, noisy_batch_size, raw, outer_reuse, pc, err,
           images, filtered_images, denoised_images, noisy_images, original_images,
           probs, d_in_logits, losses_dict, summaries_dict, store, builds, clone,
           store_before>>

\* The gate stage (denoise.py 134, 145-149) run on a raw batch and a candidate.
RunBlend ==
    /\ px.kind = "blend" /\ px.phase = "in"
    /\ LET d == discriminator(Leaf(0, BlendShape), "input_gate", InputDiscrimScope[1],
                              FALSE, FALSE, InputDiscrimScope[2], {})
           t == GateBlend(Confidence(d.out), Leaf(0, BlendShape), Leaf(1, BlendShape))
       IN  px' = [px EXCEPT !.phase = "out", !.out = Eval(t, px)]
    /\ UNCHANGED built

\* generator_resnet (module.py 130-194) run on a batch.
RunClip ==
    /\ px.kind = "clip" /\ px.phase = "in"
    /\ LET g == generator_resnet(Leaf(0, ClipShape), "generator", GeneratorScope[1],
                                 FALSE, 0, ClipShape[4], FALSE, GeneratorScope[2], {})
       IN  px' = [px EXCEPT !.phase = "out", !.out = Eval(g.out, px)]
    /\ UNCHANGED built

\* The mixture of filters (denoise.py 70-80) run on a batch.
RunMix ==
    /\ px.kind = "mix" /\ px.phase = "in"
    /\ LET g == gate(Leaf(0, MixShape), "filter_gate", FilterGateScope[1], FALSE, 4,
                     FALSE, FilterGateScope[2], {})
           terms == Mixture(g.out, Leaf(0, MixShape), px.fs)
       IN  IF AddNOk(terms)
           THEN px' = [px EXCEPT !.phase = "out", !.out = Eval(AddN(terms), px)]
           ELSE px' = [px EXCEPT !.phase = "error"]
    /\ UNCHANGED built

\* The entries of losses_dict in training (denoise.py 95-97, 107-118,
\* 137-141), evaluated.
RunLoss ==
    /\ px.kind = "loss" /\ px.phase = "in"
    /\ LET g_loss == GLoss(Criterion("g_loss/sim_loss"))
           l == CASE px.key = "g_loss" ->
                       IF px.denoise_discrim
                       THEN GLossGan(g_loss, Criterion("g_gan_loss"))
                       ELSE g_loss
                  [] px.key = "d_loss" ->
                       DLoss(Criterion("d_loss_real"), Criterion("d_loss_fake"))
                  [] px.key = "d_in_loss" ->
                       DInLoss(Criterion("d_in_loss_real"), Criterion("d_in_loss_fake"))
       IN  px' = [px EXCEPT !.phase = "out", !.out = EvalLoss(l, px)]
    /\ UNCHANGED built

NextRun == RunBlend \/ RunClip \/ RunMix \/ RunLoss

SpecRun == InitRun /\ [][NextRun]_vars

\* ---- C1
\* C1: the gate's output at every pixel and channel of example b is
\* c*raw + (1-c)*best with c the confidence of example b: raw itself when
\* c = 1, best itself when c = 0, and between raw and best otherwise.
C1_GateBlend ==
    (px.kind = "blend" /\ px.phase = "out") =>
        \A idx \in Indices(BlendShape) :
            LET c == R(px.conf[idx[1]], ConfDen)
                r == R(px.leaf[1][idx], PixScale)
                q == R(px.leaf[2][idx], PixScale)
                o == px.out[idx]
            IN  /\ o = RAdd(RMul(c, r), RMul(RSub(ROne, c), q))
                /\ c = ROne => o = r
                /\ c = RZero => o = q
                /\ RLe(RMin(r, q), o) /\ RLe(o, RMax(r, q))

C1_Witness ==
    /\ px.kind = "blend" /\ px.phase = "out"
    /\ px.conf[1] = ConfDen /\ px.conf[2] = 1
    /\ \A idx \in Indices(BlendShape) : px.leaf[1][idx] # px.leaf[2][idx]
    /\ \A c \in 1..2 : px.out[<<1, 1, 1, c>>] = R(px.leaf[1][<<1, 1, 1, c>>], PixScale)
    /\ \A c \in 1..2 : /\ px.out[<<2, 1, 1, c>>] # R(px.leaf[1][<<2, 1, 1, c>>], PixScale)
                       /\ px.out[<<2, 1, 1, c>>] # R(px.leaf[2][<<2, 1, 1, c>>], PixScale)

\* ---- C8
\* C8: generator_resnet returns clip(input + correction, -1, 1), the
\* correction being the tanh output, of magnitude at most 1: every output
\* value is in [-1, 1], and where input + correction is in [-1, 1] the output
\* minus the input is the correction.
C8_ClippedResidual ==
    (px.kind = "clip" /\ px.phase = "out") =>
        \A idx \in Indices(ClipShape) :
            LET corr == Tanh(px.pre[idx])
                x == R(px.leaf[1][idx], PixScale)
                sum == RAdd(x, corr)
                o == px.out[idx]
            IN  /\ RLe(R(-1, 1), corr) /\ RLe(corr, ROne)
                /\ o = ClipByValue(sum, R(-1, 1), ROne)
                /\ RLe(R(-1, 1), o) /\ RLe(o, ROne)
                /\ (RLe(R(-1, 1), sum) /\ RLe(sum, ROne)) => RSub(o, x) = corr

C8_Witness ==
    /\ px.kind = "clip" /\ px.phase = "out"
    /\ px.leaf[1][<<1, 1, 1, 1>>] = PixScale /\ px.pre[<<1, 1, 1, 1>>] = 1
    /\ px.out[<<1, 1, 1, 1>>] = ROne
    /\ px.leaf[1][<<1, 1, 1, 2>>] = 1 /\ px.pre[<<1, 1, 1, 2>>] = -1
    /\ px.out[<<1, 1, 1, 2>>] = RAdd(R(1, PixScale), Tanh(-1))

\* ---- C10
C10_Weight(b, i) == Softmax(px.logits[b], i)

C10_Candidate(i, idx) ==
    IF i = 1 THEN R(px.leaf[1][idx], PixScale)
    ELSE EvalAt(average_filter(Leaf(0, MixShape), i), idx, px)

NoiseDen == 4          \* random draws and ratio/stddev flags are levels k / NoiseDen
MaxZ == 2              \* a standard normal draw ranges over -MaxZ..MaxZ
MaxSide == 9           \* heights and widths of the images resized without values
MaxExamples == 3       \* examples dequeued by one get_inputs call

Floor(a) == a[1] \div a[2]

\* ---- tf.image.resize_images (align_corners=False)
\* ResizeMethod: BILINEAR = 0, NEAREST_NEIGHBOR = 1, BICUBIC = 2, AREA = 3.
ResizeMethods == 0..3

\* An image of one example and one channel: its height, its width and, when
\* the run follows the values, v[<<i, j>>] for 1 <= i <= h, 1 <= j <= w.
NoValues == <<>>
Image(h, w, v) == [h |-> h, w |-> w, v |-> v]

\* The bicubic kernel of resize_bicubic (A = -3/4) at distance x from the
\* sample: CubicNear for 0 <= x <= 1, CubicFar for 1 <= x <= 2.
CubicNear(x) ==
    RAdd(RMul(RSub(RMul(R(5, 4), x), R(9, 4)), RMul(x, x)), ROne)

CubicFar(x) ==
    RAdd(RMul(RAdd(RMul(RAdd(RMul(R(-3, 4), x), R(15, 4)), x), R(-6, 1)), x), R(3, 1))

\* The input cells (0-based, clamped to the axis) and weights that make the
\* output cell o of an axis resized from n_in to n_out cells.
ResizeTaps(method, n_in, n_out, o) ==
    LET scale == R(n_in, n_out)
        c == RMul(R(o, 1), scale)
        lo == Floor(c)
        delta == RSub(c, R(lo, 1))
        Bound(i) == Max(0, Min(i, n_in - 1))
        end == RMul(R(o + 1, 1), scale)
        last == IF end[2] = 1 THEN end[1] - 1 ELSE Floor(end)
    IN  CASE method = 0 ->
               <<<<Bound(lo), RSub(ROne, delta)>>, <<Bound(lo + 1), delta>>>>
          [] method = 1 -> <<<<Bound(lo), ROne>>>>
          [] method = 2 ->
               <<<<Bound(lo - 1), CubicFar(RAdd(delta, ROne))>>,
                 <<Bound(lo), CubicNear(delta)>>,
                 <<Bound(lo + 1), CubicNear(RSub(ROne, delta))>>,
                 <<Bound(lo + 2), CubicFar(RSub(R(2, 1), delta))>>>>
          [] method = 3 ->
               [k \in 1..(last - lo + 1) |->
                   LET i == lo + k - 1
                   IN  <<Bound(i),
                         RMul(RSub(RMin(R(i + 1, 1), end), RMax(R(i, 1), c)),
                              R(n_out, n_in))>>]

RECURSIVE ResizeRow(_, _, _)
ResizeRow(v, i, cols) ==
    IF cols = <<>> THEN RZero
    ELSE RAdd(RMul(Head(cols)[2], v[<<i + 1, Head(cols)[1] + 1>>]),
              ResizeRow(v, i, Tail(cols)))

RECURSIVE ResizeCell(_, _, _)
ResizeCell(v, rows, cols) ==
    IF rows = <<>> THEN RZero
    ELSE RAdd(RMul(Head(rows)[2], ResizeRow(v, Head(rows)[1], cols)),
              ResizeCell(v, Tail(rows), cols))

\* tf.image.resize_images(image, [height, width], method): the kernels
\* reject an output size that is not positive.
ResizeOk(height, width) == height > 0 /\ width > 0

resize_images(image, height, width, method) ==
    Image(height, width,
          IF image.v = NoValues THEN NoValues
          ELSE [idx \in (1..height) \X (1..width) |->
                   ResizeCell(image.v,
                              ResizeTaps(method, image.h, height, idx[1] - 1),
                              ResizeTaps(method, image.w, width, idx[2] - 1))])

\* ---- the noise injectors (discrim_merger.py 159-250, evaluator.py 85-141)
TrainModules == {"discrim_merger", "evaluator"}

SaltPepperRatioFixed(mod, ratio, rand_ratio, s) == ratio

\* ratio = tf.random_uniform([], maxval=ratio) if rand_ratio else ratio
\* (s is the uniform draw in [0, 1); evaluator.py has no such line).
SaltPepperRatio(mod, ratio, rand_ratio, s) ==
    IF mod = "discrim_merger" /\ rand_ratio THEN RMul(s, ratio) ELSE ratio

\* image: pixel index |-> value; draw.u, draw.v: the two tf.random_uniform
\* tensors; draw.s: the draw of the ratio.
get_salt_pepper_noise_image(mod, image, ratio, rand_ratio, draw) ==
    LET r == SaltPepperRatio(mod, ratio, rand_ratio, draw.s)
        random_tensor(i) == RAdd(RSub(ROne, r), draw.u[i])
        binary_tensor(i) == R(Floor(random_tensor(i)), 1)
        scaled(i) == RMul(RAdd(image[i], ROne), R(1, 2))
        noise_image(i) ==
            RAdd(RMul(binary_tensor(i), scaled(i)),
                 RMul(RSub(ROne, binary_tensor(i)), draw.v[i]))
    IN  [i \in DOMAIN image |->
            ClipByValue(RSub(RMul(noise_image(i), R(2, 1)), ROne), R(-1, 1), ROne)]

\* draw.t: the truncated normal draw in units of its stddev (|t| <= 2);
\* draw.z: the standard normal draws.
get_gaussian_noise_image(image, stddev, rand_stddev, draw) ==
    LET half == RMul(RMul(R(draw.t, 1), stddev), R(1, 2))
        sigma == IF rand_stddev THEN RMax(half, RSub(RZero, half)) ELSE stddev
        noise(i) == RMul(R(draw.z[i], 1), RMul(sigma, R(2, 1)))
    IN  [i \in DOMAIN image |-> ClipByValue(RAdd(image[i], noise(i)), R(-1, 1), ROne)]

\* What a low-resolution injector hands back: the error of the run ("": none),
\* the image, and the <<factor, downsampling method, upsampling method>> used.
Lowres(e, out, plan) == [err |-> e, out |-> out, plan |-> plan]

ResizeError == "InvalidArgumentError: output dimensions must be positive"

\* tf.cond(tf.equal(subsample, 1), height/2 ..., height/4 ...)
MrFactor(subsample) == IF subsample = 1 THEN 2 ELSE 4

DownsampleMethodDrawn(resize_method) == resize_method

\* tf.image.resize_images(image, [down_height, down_width]): method defaults
\* to ResizeMethod.BILINEAR.
DownsampleMethod(resize_method) == 0

\* tf.case({resize_method == 0: ..., == 1: ..., == 2: ...}, default=...)
UpsampleMethod(resize_method) ==
    IF resize_method = 0 THEN 0
    ELSE IF resize_method = 1 THEN 1
    ELSE IF resize_method = 2 THEN 2
    ELSE 3

UpsampleSizeFromDown(height, width, down_height, down_width, factor) ==
    <<down_height * factor, down_width * factor>>

\* The size argument of the upsampling resize_images: [height, width].
UpsampleSize(height, width, down_height, down_width, factor) == <<height, width>>

get_mr_image(image, subsample, resize_method) ==
    LET factor == MrFactor(subsample)
        down_height == image.h \div factor
        down_width == image.w \div factor
        plan == <<factor, DownsampleMethod(resize_method), UpsampleMethod(resize_method)>>
        size == UpsampleSize(image.h, image.w, down_height, down_width, factor)
        downsampled_image == resize_images(image, down_height, down_width, plan[2])
    IN  IF ~ResizeOk(down_height, down_width) \/ ~ResizeOk(size[1], size[2])
        THEN Lowres(ResizeError, Image(0, 0, NoValues), plan)
        ELSE Lowres("", resize_images(downsampled_image, size[1], size[2], plan[3]), plan)

get_lowres_image(image, factor, method, upsample) ==
    LET down_height == image.h \div factor
        down_width == image.w \div factor
        plan == <<factor, DownsampleMethod(method), method>>
        size == UpsampleSize(image.h, image.w, down_height, down_width, factor)
        downsampled_image == resize_images(image, down_height, down_width, plan[2])
    IN  IF ~ResizeOk(down_height, down_width) \/ ~ResizeOk(size[1], size[2])
        THEN Lowres(ResizeError, Image(0, 0, NoValues), plan)
        ELSE IF upsample
        THEN Lowres("", resize_images(downsampled_image, size[1], size[2], plan[3]), plan)
        ELSE Lowres("", downsampled_image, plan)

\* ---- inputs of the injectors
NoiseShape == <<1, 1, 1, 1>>
Levels == {R(k, NoiseDen) : k \in 0..NoiseDen}          \* [0, 1]
Draws == {R(k, NoiseDen) : k \in 0..(NoiseDen - 1)}      \* [0, 1)
Pixels == {R(x, PixScale) : x \in PixVals}

SaltInputs ==
    {[kind |-> "salt", phase |-> "in", module |-> m, image |-> x, ratio |-> r,
      rand_ratio |-> rr, s |-> s, u |-> u, v |-> v, out |-> <<>>] :
        m \in TrainModules, x \in [Indices(NoiseShape) -> Pixels], r \in Levels,
        rr \in BOOLEAN, s \in Draws, u \in [Indices(NoiseShape) -> Draws],
        v \in [Indices(NoiseShape) -> Draws]}

GaussInputs ==
    {[kind |-> "gauss", phase |-> "in", image |-> x, stddev |-> sd,
      rand_stddev |-> rs, t |-> t, z |-> z, out |-> <<>>] :
        x \in [Indices(NoiseShape) -> Pixels], sd \in Levels, rs \in BOOLEAN,
        t \in -2..2, z \in [Indices(NoiseShape) -> -MaxZ..MaxZ]}

\* Images whose values are followed: constant along the height, -1 or 1.
Stripes(h, w) ==
    {Image(h, w, [idx \in (1..h) \X (1..w) |-> R(col[idx[2]], 1)]) :
        col \in [1..w -> {-1, 1}]}

LowresImages ==
    Stripes(2, 6) \cup Stripes(4, 4)
    \cup {Image(h, w, NoValues) : h \in 1..MaxSide, w \in 1..MaxSide}

MrInputs ==
    {[kind |-> "mr", phase |-> "in", image |-> x, subsample |-> sub,
      resize_method |-> rm, err |-> "", out |-> Image(0, 0, NoValues), plan |-> <<>>] :
        x \in LowresImages, sub \in 0..1, rm \in ResizeMethods}

LowresFactors == {1, 2, 4}

LowresInputs ==
    {[kind |-> "lowres", phase |-> "in", image |-> x, factor |-> f, method |-> m,
      upsample |-> up, err |-> "", out |-> Image(0, 0, NoValues), plan |-> <<>>] :
        x \in LowresImages, f \in LowresFactors, m \in ResizeMethods, up \in BOOLEAN}

\* ---- the injectors run on one image
RunSaltPepper ==
    /\ px.kind = "salt" /\ px.phase = "in"
    /\ px' = [px EXCEPT !.phase = "out",
                        !.out = get_salt_pepper_noise_image(px.module, px.image,
                                    px.ratio, px.rand_ratio, px)]
    /\ UNCHANGED built

RunGaussian ==
    /\ px.kind = "gauss" /\ px.phase = "in"
    /\ px' = [px EXCEPT !.phase = "out",
                        !.out = get_gaussian_noise_image(px.image, px.stddev,
                                                         px.rand_stddev, px)]
    /\ UNCHANGED built

RunMr ==
    /\ px.kind = "mr" /\ px.phase = "in"
    /\ LET r == get_mr_image(px.image, px.subsample, px.resize_method)
       IN  px' = [px EXCEPT !.phase = "out", !.err = r.err, !.out = r.out,
                            !.plan = r.plan]
    /\ UNCHANGED built

RunLowres ==
    /\ px.kind = "lowres" /\ px.phase = "in"
    /\ LET r == get_lowres_image(px.image, px.factor, px.method, px.upsample)
       IN  px' = [px EXCEPT !.phase = "out", !.err = r.err, !.out = r.out,
                            !.plan = r.plan]
    /\ UNCHANGED built

\* ---- get_inputs (discrim_merger.py 108-157)
\* An entry of read_data_list: whether it holds the keys
\* groundtruth_instance_masks and groundtruth_keypoints.
ReadData == [masks : BOOLEAN, keypoints : BOOLEAN]

\* read_data.get(key): the value under the key, or None.
DictGet(present, value) == IF present THEN value ELSE "None"

MultiLabelGuardMasksOnly(merge_multiple_label_boxes, masks_gt, keypoints_gt) ==
    merge_multiple_label_boxes /\ masks_gt # "None"

\* if (merge_multiple_label_boxes and (
\*     masks_gt is not None or keypoints_gt is not None)):
MultiLabelGuard(merge_multiple_label_boxes, masks_gt, keypoints_gt) ==
    merge_multiple_label_boxes /\ (masks_gt # "None" \/ keypoints_gt # "None")

extract_images_and_targets(read_data, merge_multiple_label_boxes) ==
    LET masks_gt == DictGet(read_data.masks, "masks")
        keypoints_gt == DictGet(read_data.keypoints, "keypoints")
        classes_gt == IF merge_multiple_label_boxes THEN "k_hot" ELSE "one_hot"
    IN  IF MultiLabelGuard(merge_multiple_label_boxes, masks_gt, keypoints_gt)
        THEN [err |-> "NotImplementedError", out |-> <<>>]
        ELSE [err |-> "",
              out |-> <<"image", "key", "location_gt", classes_gt, masks_gt,
                        keypoints_gt>>]

\* map(extract_images_and_targets, read_data_list): the first exception ends it.
RECURSIVE MapExtract(_, _, _)
MapExtract(read_data_list, merge_multiple_label_boxes, done) ==
    IF read_data_list = <<>> THEN [err |-> "", out |-> done]
    ELSE LET r == extract_images_and_targets(Head(read_data_list),
                                             merge_multiple_label_boxes)
         IN  IF r.err # "" THEN [err |-> r.err, out |-> <<>>]
             ELSE MapExtract(Tail(read_data_list), merge_multiple_label_boxes,
                             Append(done, r.out))

\* zip(*rows): one list per position of the rows.
Unzip(rows) == [k \in 1..6 |-> [i \in 1..Len(rows) |-> rows[i][k]]]

get_inputs(read_data_list, merge_multiple_label_boxes) ==
    LET m == MapExtract(read_data_list, merge_multiple_label_boxes, <<>>)
    IN  IF m.err # "" THEN m ELSE [err |-> "", out |-> Unzip(m.out)]

InputsInputs ==
    {[kind |-> "inputs", phase |-> "in", merge_multiple_label_boxes |-> m,
      read_data_list |-> l, err |-> "", out |-> <<>>] :
        m \in BOOLEAN, l \in UNION {[1..n -> ReadData] : n \in 1..MaxExamples}}

RunGetInputs ==
    /\ px.kind = "inputs" /\ px.phase = "in"
    /\ LET r == get_inputs(px.read_data_list, px.merge_multiple_label_boxes)
       IN  px' = [px EXCEPT !.phase = "out", !.err = r.err, !.out = r.out]
    /\ UNCHANGED built

\* ---- the noisy half of the batch (discrim_merger.py 280-301,
\* ---- backup/add_noise.py 277-305 and 423-426)
\* An image of the list: None, or a tensor with its shape (static: whether
\* get_shape() knows height and width) and the injectors it went through.
NoneImage == [none |-> TRUE, static |-> FALSE, shape |-> <<>>, noise |-> <<>>]
CleanImage(static) ==
    [none |-> FALSE, static |-> static, shape |-> <<1, 4, 8, 3>>, noise |-> <<>>]

Injected(name, image) == [image EXCEPT !.noise = Append(@, name)]

\* get_snow_image: height*width*sparsity/24 on the static shape, two random
\* draws, and no return statement.
SnowResult(image) == NoneImage

get_snow_image(image) ==
    IF ~image.static
    THEN [err |-> "TypeError: unsupported operand type(s) for *", out |-> NoneImage]
    ELSE [err |-> "", out |-> SnowResult(image)]

NoiseVariants == {"discrim_merger", "add_noise"}
NoiseFlagSets ==
    [salt_pepper_noise : BOOLEAN, gaussian_noise : BOOLEAN, lowres : BOOLEAN,
     snow : BOOLEAN]

\* tf.summary.image(name, noisy_images[0])
SummaryImage(st) ==
    IF st.err = "" /\ st.noisy_images[1].none
    THEN [st EXCEPT !.err = "ValueError: None values not supported"]
    ELSE st

MapInjector(name, st) ==
    [st EXCEPT !.noisy_images = [i \in 1..Len(@) |-> Injected(name, @[i])]]

\* One `if FLAGS.<mode>:` block of the noise code.
NoiseStep(mode, variant, flags, st) ==
    IF st.err # "" \/ ~flags[mode] THEN st
    ELSE CASE mode = "salt_pepper_noise" -> SummaryImage(MapInjector("salt_pepper", st))
           [] mode = "gaussian_noise" -> SummaryImage(MapInjector("gaussian", st))
           [] mode = "lowres" ->
                IF variant = "add_noise"
                THEN [st EXCEPT !.err = "NameError: groundtruth_boxes_list"]
                ELSE SummaryImage(MapInjector("mr", st))
           [] mode = "snow" ->
                LET r == get_snow_image(st.noisy_images[1])
                IN  IF r.err # "" THEN [st EXCEPT !.err = r.err]
                    ELSE SummaryImage(
                             [st EXCEPT !.noisy_images =
                                 [i \in 1..Len(@) |-> get_snow_image(@[i]).out]])

add_noise(image_list, variant, flags) ==
    NoiseStep("snow", variant, flags,
        NoiseStep("lowres", variant, flags,
            NoiseStep("gaussian_noise", variant, flags,
                NoiseStep("salt_pepper_noise", variant, flags,
                          [err |-> "", noisy_images |-> image_list]))))

\* The four groundtruth lists get_inputs returns, one entry per example:
\* entry i is the example's number, or 0 for None (no masks, no keypoints).
Groundtruth(n, masks, keypoints) ==
    [boxes |-> [i \in 1..n |-> i],
     classes |-> [i \in 1..n |-> i],
     masks |-> [i \in 1..n |-> IF masks THEN i ELSE 0],
     keypoints |-> [i \in 1..n |-> IF keypoints THEN i ELSE 0]]

\* groundtruth_boxes_list += groundtruth_boxes_list
\* groundtruth_classes_list += groundtruth_classes_list
\* groundtruth_masks_list += groundtruth_masks_list
DoubleGroundtruth(gt) ==
    [gt EXCEPT !.boxes = @ \o @, !.classes = @ \o @, !.masks = @ \o @]

NoiseInputs ==
    {[kind |-> "noise", phase |-> "in", variant |-> var, flags |-> f,
      images |-> [i \in 1..n |-> CleanImage(st)], noisy_images |-> <<>>,
      err |-> "", batch |-> <<>>, gt |-> Groundtruth(n, mk[1], mk[2])] :
        var \in NoiseVariants, f \in NoiseFlagSets, n \in 1..MaxExamples,
        st \in BOOLEAN, mk \in BOOLEAN \X BOOLEAN}

\* if FLAGS.lowres or FLAGS.snow or FLAGS.gaussian_noise or FLAGS.salt_pepper_noise:
\* the noisy images are made; else the batch is the images.
NoiseStage ==
    /\ px.kind = "noise" /\ px.phase = "in"
    /\ LET r == add_noise(px.images, px.variant, px.flags)
       IN  IF \A mode \in DOMAIN px.flags : ~px.flags[mode]
           THEN px' = [px EXCEPT !.phase = "single", !.batch = px.images]
           ELSE IF r.err # ""
           THEN px' = [px EXCEPT !.phase = "failed", !.err = r.err,
                                 !.noisy_images = r.noisy_images]
           ELSE px' = [px EXCEPT !.phase = "noised", !.noisy_images = r.noisy_images]
    /\ UNCHANGED built

\* images = noisy_images + images, and the groundtruth lists after it
DoubleBatch ==
    /\ px.kind = "noise" /\ px.phase = "noised"
    /\ px' = [px EXCEPT !.phase = "doubled", !.batch = px.noisy_images \o px.images,
                        !.gt = DoubleGroundtruth(@)]
    /\ UNCHANGED built

\* ---- generator_unet (module.py 55-117)
\* e1..e8: conv2d with stride 2 and SAME padding, each on the stage before.
RECURSIVE UnetEncoder(_, _, _)
UnetEncoder(k, h, w) ==
    IF k > 8 THEN <<>>
    ELSE <<[h |-> SameOut(h, 2), w |-> SameOut(w, 2)]>>
         \o UnetEncoder(k + 1, SameOut(h, 2), SameOut(w, 2))

\* tf.layers.dropout(inputs, rate, noise_shape=None, seed=None, training=False)
layers_dropout(rate, noise_shape, training) ==
    IF training THEN "active" ELSE "identity"

\* tf.layers.dropout(d1, dropout_rate, options.is_training): the third
\* positional argument is noise_shape, training keeps its default.
UnetDropout(options) == layers_dropout("dropout_rate", options.is_training, FALSE)

\* d1..d8: deconv2d (stride 2), dropout on d1..d3, instance_norm and the
\* concat with e(8-k) on d1..d7. The name dropout_rate is assigned nowhere in
\* module.py (line 57 is a comment): it is bound only if `from ops import *`
\* binds it (options.dropout_rate_bound).
RECURSIVE UnetDecoder(_, _, _, _, _)
UnetDecoder(k, h, w, e, options) ==
    IF k > 8 THEN [err |-> "", stages |-> <<>>]
    ELSE IF k <= 3 /\ ~options.dropout_rate_bound
    THEN [err |-> "NameError: dropout_rate", stages |-> <<>>]
    ELSE IF k <= 7 /\ <<2 * h, 2 * w>> # <<e[8 - k].h, e[8 - k].w>>
    THEN [err |-> "ValueError: concat", stages |-> <<>>]
    ELSE LET rest == UnetDecoder(k + 1, 2 * h, 2 * w, e, options)
         IN  [err |-> rest.err,
              stages |-> <<[h |-> 2 * h, w |-> 2 * w, skip |-> k <= 7,
                            dropout |-> IF k <= 3 THEN UnetDropout(options)
                                        ELSE "none"]>> \o rest.stages]

generator_unet(image, options) ==
    LET e == UnetEncoder(1, image[1], image[2])
        d == UnetDecoder(1, e[8].h, e[8].w, e, options)
    IN  [err |-> d.err, encoder |-> e, decoder |-> d.stages]

UnetInputs ==
    {[kind |-> "unet", phase |-> "in", image |-> hw,
      options |-> [is_training |-> t, dropout_rate_bound |-> b],
      err |-> "", encoder |-> <<>>, decoder |-> <<>>] :
        hw \in ImageSizes, t \in BOOLEAN, b \in BOOLEAN}

RunUnet ==
    /\ px.kind = "unet" /\ px.phase = "in"
    /\ LET g == generator_unet(px.image, px.options)
       IN  px' = [px EXCEPT !.phase = "out", !.err = g.err, !.encoder = g.encoder,
                           !.decoder = g.decoder]
    /\ UNCHANGED built

\* ---- _process_batch (evaluator.py 403-440)
MaxCalls == 4          \* calls of _process_batch in one evaluation run
MaxVisualizations == 2 \* eval_config.num_visualizations ranges over 0..this

\* What sess.run(tensor_dict) does: returns, raises InvalidArgumentError, or
\* raises another error (OutOfRangeError when the input is exhausted).
SessRunOutcomes == {"ok", "InvalidArgumentError", "OutOfRangeError"}

CountSkippedAndSuccess(counters) ==
    [counters EXCEPT !.skipped = @ + 1, !.success = @ + 1]

\* counters['skipped'] += 1
CountSkipped(counters) == [counters EXCEPT !.skipped = @ + 1]

\* One call: the counters after it, what it returns ("{}", "result_dict", or
\* "raised" with the error in err), and whether it visualized.
process_batch(run, batch_index, counters, num_visualizations) ==
    IF run = "ok"
    THEN [counters |-> [counters EXCEPT !.success = @ + 1], result |-> "result_dict",
          err |-> "", visualized |-> batch_index < num_visualizations]
    ELSE IF run = "InvalidArgumentError"
    THEN [counters |-> CountSkipped(counters), result |-> "{}", err |-> "",
          visualized |-> FALSE]
    ELSE [counters |-> counters, result |-> "raised", err |-> run,
          visualized |-> FALSE]

EvalInputs ==
    {[kind |-> "eval", phase |-> "loop", num_visualizations |-> v, calls |-> 0,
      returned |-> 0, counters |-> [success |-> 0, skipped |-> 0],
      before |-> [success |-> 0, skipped |-> 0], run |-> "", result |-> "",
      err |-> "", visualized |-> FALSE] : v \in 0..MaxVisualizations}

\* eval_util's loop calls batch_processor(tensor_dict, sess, batch, counters)
\* with batch = 0, 1, ... and stops at the first call that raises.
ProcessBatch ==
    /\ px.kind = "eval" /\ px.phase = "loop"
    /\ px.calls < MaxCalls
    /\ \E run \in SessRunOutcomes :
          LET r == process_batch(run, px.calls, px.counters, px.num_visualizations)
          IN  px' = [px EXCEPT !.calls = @ + 1,
                              !.returned = IF r.result = "raised" THEN @ ELSE @ + 1,
                              !.phase = IF r.result = "raised" THEN "stopped" ELSE @,
                              !.before = px.counters,
                              !.counters = r.counters,
                              !.run = run, !.result = r.result, !.err = r.err,
                              !.visualized = r.visualized]
    /\ UNCHANGED built

\* ------------------------------ discrim_merger._create_losses, lines 327-376
\* A loss term is named by the function that made it and its key in the dict
\* that function returned.
DiscrimTerms == {[by |-> "discrim_loss", key |-> "discrim_loss"]}
DetectionTerms ==
    {[by |-> "detection_model.loss", key |-> k] :
        k \in {"localization_loss", "classification_loss"}}

\* dict.update: the keys of `more` replace those of `dict`.
DictUpdate(dict, more) ==
    {t \in dict : \A u \in more : u.key # t.key} \cup more

\* losses_dict = {} (329); inside `if FLAGS.average_filter: if FLAGS.discrim:`
\* losses_dict.update(discrim_loss(discrim_logits, are_noises, ...)) (341),
\* are_noises being bound only by the doubling branch (317-319); then
\* losses_dict = detection_model.loss(prediction_dict) (370) and the loop
\* over losses_dict.items() calling tf.losses.add_loss (373-376).
\* `placed` collects every term some statement put into losses_dict.
create_losses_dict(flags, doubled, discrim_terms, detection_terms) ==
    LET stage == flags.average_filter /\ flags.discrim
        d0 == {}
        d1 == IF stage THEN DictUpdate(d0, discrim_terms) ELSE d0
        d2 == detection_terms
    IN  IF stage /\ ~doubled
        THEN [err |-> "NameError: are_noises", placed |-> d0,
              losses_dict |-> d0, registered |-> {}]
        ELSE [err |-> "", placed |-> d1 \cup d2, losses_dict |-> d2,
              registered |-> d2]

MergeInputs ==
    {[kind |-> "merge", phase |-> "in", flags |-> f, doubled |-> dbl,
      discrim_terms |-> dt, detection_terms |-> det, err |-> "",
      placed |-> {}, losses_dict |-> {}, registered |-> {}] :
        f \in [average_filter : BOOLEAN, discrim : BOOLEAN],
        dbl \in BOOLEAN, dt \in SUBSET DiscrimTerms,
        det \in SUBSET DetectionTerms}

CreateLosses ==
    /\ px.kind = "merge" /\ px.phase = "in"
    /\ LET r == create_losses_dict(px.flags, px.doubled, px.discrim_terms,
                                   px.detection_terms)
       IN  px' = [px EXCEPT !.phase = "out", !.err = r.err,
                            !.placed = r.placed,
                            !.losses_dict = r.losses_dict,
                            !.registered = r.registered]
    /\ UNCHANGED built

\* ---------------------- discrim_merger.optimistic_restore and train, 41-55, 528-533
MaxShape == 2          \* a variable's shape is one number in 1..MaxShape
VarOps == {"conv", "fc"}

\* var.name.split(':')[0] of a name such as 'conv:0', kept as <<op, output>>.
SplitColon(name) == name[1]

GlobalVariables ==
    { {[name |-> <<n, 0>>, shape |-> sh[n]] : n \in VarOps} :
        sh \in [VarOps -> 1..MaxShape] }

\* A checkpoint: saved name |-> shape, for the names it holds; the value it
\* holds for each is tagged with the checkpoint's own file name.
Checkpoints(file) ==
    UNION { {[file |-> file, shapes |-> sh] : sh \in [names -> 1..MaxShape]} :
              names \in SUBSET VarOps }

\* tf.train.Saver(var_list) with an empty list raises ValueError; restore
\* assigns the saved value to each variable of the list.
optimistic_restore(session, variables, save_file) ==
    LET saved_shapes == save_file.shapes
        var_names == {v \in variables : SplitColon(v.name) \in DOMAIN saved_shapes}
        restore_vars ==
            {v \in var_names : v.shape = saved_shapes[SplitColon(v.name)]}
    IN  IF restore_vars = {}
        THEN [err |-> "ValueError: No variables to save", session |-> session,
              restore_vars |-> restore_vars]
        ELSE [err |-> "", restore_vars |-> restore_vars,
              session |-> [n \in DOMAIN session |->
                             IF \E v \in restore_vars : v.name = n
                             THEN save_file.file ELSE session[n]]]

RestoreInputs ==
    {[kind |-> "restore", phase |-> "in", variables |-> vs,
      first |-> c1, second |-> c2, calls |-> 0, err |-> "",
      session |-> <<>>, after_first |-> <<>>,
      restored_first |-> {}, restored_second |-> {}] :
        vs \in GlobalVariables, c1 \in Checkpoints("gaussian_discrim"),
        c2 \in Checkpoints("fine_tune_checkpoint")}

\* sess.run(tf.global_variables_initializer()); the two restores; saver.save.
TrainRestore ==
    /\ px.kind = "restore" /\ px.phase = "in"
    /\ LET init == [n \in {v.name : v \in px.variables} |-> "initializer"]
           r1 == optimistic_restore(init, px.variables, px.first)
           r2 == optimistic_restore(r1.session, px.variables, px.second)
       IN  px' = IF r1.err # ""
                 THEN [px EXCEPT !.phase = "raised", !.calls = 1, !.err = r1.err,
                                 !.session = r1.session,
                                 !.after_first = r1.session]
                 ELSE [px EXCEPT !.phase = IF r2.err # "" THEN "raised" ELSE "saved",
                                 !.calls = 2, !.err = r2.err,
                                 !.session = r2.session,
                                 !.after_first = r1.session,
                                 !.restored_first = r1.restore_vars,
                                 !.restored_second = r2.restore_vars]
    /\ UNCHANGED built

\* ------------------------------ evaluator.resize_dividable_image, 149-155
MaxNumber == 4         \* the `number` argument ranges over 1..MaxNumber

DivTensorCeil(a, b) == (a + b - 1) \div b

\* Tensor.__div__ on int32 (Python 2, no true division in evaluator.py):
\* floor division.
DivTensor(a, b) == a \div b

\* tf.image.resize_images(image, [height, width]) keeps batch and channels;
\* the resize op rejects an output dimension that is not positive.
resize_dividable_image(image, number) ==
    LET height == DivTensor(image[2], number) * number
        width == DivTensor(image[3], number) * number
    IN  IF height <= 0 \/ width <= 0
        THEN [err |-> "InvalidArgumentError: output dimensions must be positive",
              shape |-> <<image[1], height, width, image[4]>>]
        ELSE [err |-> "", shape |-> <<image[1], height, width, image[4]>>]

DividableInputs ==
    {[kind |-> "dividable", phase |-> "in", image |-> <<1, h, w, 3>>,
      number |-> n, err |-> "", shape |-> <<>>] :
        h \in 1..MaxSide, w \in 1..MaxSide, n \in 1..MaxNumber}

RunResizeDividable ==
    /\ px.kind = "dividable" /\ px.phase = "in"
    /\ LET r == resize_dividable_image(px.image, px.number)
       IN  px' = [px EXCEPT !.phase = "out", !.err = r.err, !.shape = r.shape]
    /\ UNCHANGED built

InitTrain ==
    /\ \/ px \in SaltInputs
       \/ px \in MergeInputs
       \/ px \in RestoreInputs
       \/ px \in DividableInputs
       \/ px \in EvalInputs
       \/ px \in UnetInputs
       \/ px \in GaussInputs
       \/ px \in MrInputs
       \/ px \in LowresInputs
       \/ px \in InputsInputs
       \/ px \in NoiseInputs
    /\ module = "denoise"
    /\ FLAGS = DefaultFlags
    /\ is_training = FALSE
    /\ noisy_batch_size = 1
    /\ raw = NoTensor
    /\ outer_reuse = FALSE
    /\ pc = "run"
    /\ err = ""
    /\ images = NoTensor
    /\ filtered_images = NoTensor
    /\ denoised_images = NoTensor
    /\ noisy_images = NoTensor
    /\ original_images = NoTensor
    /\ probs = NoTensor
    /\ d_in_logits = NoTensor
    /\ losses_dict = <<>>
    /\ summaries_dict = <<>>
    /\ store = {}
    /\ builds = <<>>
    /\ clone = 0
    /\ store_before = {}

NextTrain ==
    \/ RunSaltPepper
    \/ RunGaussian
    \/ RunMr
    \/ RunLowres
    \/ RunGetInputs
    \/ NoiseStage
    \/ DoubleBatch
    \/ RunUnet
    \/ ProcessBatch
    \/ CreateLosses
    \/ TrainRestore
    \/ RunResizeDividable

SpecTrain == InitTrain /\ [][NextTrain]_vars

\* ---- C11
C11_InRange(x) == RLe(R(-1, 1), x) /\ RLe(x, ROne)

\* C11: every value of the output of the salt-pepper, gaussian and
\* low-resolution (get_mr_image) injectors is in [-1, 1], for inputs in
\* [-1, 1], every ratio and stddev, both factors and the four resize methods.
C11_OutputClipped ==
    /\ (px.kind \in {"salt", "gauss"} /\ px.phase = "out") =>
          \A i \in DOMAIN px.out : C11_InRange(px.out[i])
    /\ (px.kind = "mr" /\ px.phase = "out" /\ px.err = ""
        /\ px.image.v # NoValues) =>
          \A idx \in DOMAIN px.out.v : C11_InRange(px.out.v[idx])

\* ---- C12
C12_Less(a, b) == a[1] * b[2] < b[1] * a[2]
C12_Fresh(i) == RSub(RMul(R(2, 1), px.v[i]), ROne)
C12_SaltDone == px.kind = "salt" /\ px.phase = "out"

C13_Factor ==
    IF px.kind = "mr" THEN (IF px.subsample = 1 THEN 2 ELSE 4) ELSE px.factor

C14_Plans ==
    {get_mr_image(px.image, sub, rm).plan : sub \in 0..1, rm \in ResizeMethods}

C14_MrDone == px.kind = "mr" /\ px.phase = "out"

\* C14 as stated: every combination of a factor in {2, 4}, one of the four
\* methods for downsampling and one of the four for upsampling can be drawn.
C14_EveryCombination ==
    C14_MrDone => C14_Plans = {2, 4} \X ResizeMethods \X ResizeMethods

\* C14: the factor is 2 or 4 by the first draw, the upsampling method is the
\* one of the four picked by the second draw, and the downsampling is always
\* bilinear: the combinations that can be drawn are {2, 4} x {bilinear} x the
\* four upsampling methods.
C14_DownsampleBilinear ==
    C14_MrDone =>
        /\ px.plan = <<IF px.subsample = 1 THEN 2 ELSE 4, 0, px.resize_method>>
        /\ C14_Plans = {2, 4} \X {0} \X ResizeMethods

C14_Witness ==
    /\ C14_MrDone /\ px.err = ""
    /\ px.subsample = 1 /\ px.resize_method = 1
    /\ px.plan = <<2, 0, 1>>

\* ---- C15
\* C15: with snow set, once the noise code is over either every noisy image is
\* a tensor of its input's shape, or the build was stopped by an explicit
\* rejection of the mode; and no None is in the doubled batch.
C15_SnowReturnsOrRejects ==
    (px.kind = "noise" /\ px.flags.snow /\ px.phase # "in") =>
        /\ \/ /\ px.err = ""
              /\ \A i \in 1..Len(px.noisy_images) :
                    /\ ~px.noisy_images[i].none
                    /\ px.noisy_images[i].shape = px.images[i].shape
           \/ px.err = "NotImplementedError"
        /\ px.phase = "doubled" => \A i \in 1..Len(px.batch) : ~px.batch[i].none

\* ---- C16
\* C16: get_inputs raises NotImplementedError exactly when
\* merge_multiple_label_boxes is set and some example of the batch holds masks
\* or keypoints, and then returns nothing; otherwise it returns the six lists,
\* one entry per example.
C16_NotImplementedRaised ==
    (px.kind = "inputs" /\ px.phase = "out") =>
        LET l == px.read_data_list
            bad == /\ px.merge_multiple_label_boxes
                   /\ \E i \in 1..Len(l) : l[i].masks \/ l[i].keypoints
        IN  /\ px.err = "NotImplementedError" <=> bad
            /\ bad => px.out = <<>>
            /\ ~bad => /\ px.err = ""
                       /\ Len(px.out) = 6
                       /\ \A k \in 1..6 : Len(px.out[k]) = Len(l)

C16_Witness ==
    /\ px.kind = "inputs" /\ px.phase = "out"
    /\ px.merge_multiple_label_boxes
    /\ px.read_data_list = <<[masks |-> FALSE, keypoints |-> FALSE],
                             [masks |-> FALSE, keypoints |-> FALSE],
                             [masks |-> FALSE, keypoints |-> TRUE]>>
    /\ px.err = "NotImplementedError"
    /\ px.out = <<>>

\* ---- C23
\* C23: once the batch is doubled, the image list is the n noisy images
\* followed by the n clean images, and each of the four groundtruth lists has
\* 2n entries, entry n+i equal to entry i, as many as the image list.
C23_GroundtruthDoubled ==
    (px.kind = "noise" /\ px.phase = "doubled") =>
        LET n == Len(px.images)
        IN  /\ px.batch = px.noisy_images \o px.images
            /\ Len(px.noisy_images) = n
            /\ \A k \in {"boxes", "classes", "masks", "keypoints"} :
                  /\ Len(px.gt[k]) = 2 * n
                  /\ Len(px.gt[k]) = Len(px.batch)
                  /\ \A i \in 1..n : px.gt[k][n + i] = px.gt[k][i]

\* ---- C24
\* C24: generator_unet builds for both values of is_training: eight
\* downsampling and eight upsampling stages, a skip concatenation after each of
\* the first seven decoder stages, and dropout on exactly the first three
\* decoder stages, active only when is_training is true.
C24_UnetBuilds ==
    (px.kind = "unet" /\ px.phase = "out") =>
        /\ px.err = ""
        /\ Len(px.encoder) = 8 /\ Len(px.decoder) = 8
        /\ \A k \in 1..Len(px.decoder) :
              /\ px.decoder[k].skip <=> k <= 7
              /\ px.decoder[k].dropout =
                    IF k > 3 THEN "none"
                    ELSE IF px.options.is_training THEN "active" ELSE "identity"

\* ---- C25
C25_Called == px.kind = "eval" /\ px.calls > 0

\* What the claim says of a call whose session run raises
\* InvalidArgumentError: only 'skipped' goes up, by one, the call returns an
\* empty dict and visualizes nothing.
C25_Skipped ==
    px.run = "InvalidArgumentError" =>
        /\ px.counters.skipped = px.before.skipped + 1
        /\ px.counters.success = px.before.success
        /\ px.result = "{}" /\ ~px.visualized

\* C25 as stated: after any sequence of calls success + skipped is the number
\* of calls made, each call raises exactly one of the two counters by one, and
\* a skipped call is as above.
C25_EveryCallCounted ==
    C25_Called =>
        /\ px.counters.success + px.counters.skipped = px.calls
        /\ \/ /\ px.counters.success = px.before.success + 1
              /\ px.counters.skipped = px.before.skipped
           \/ /\ px.counters.success = px.before.success
              /\ px.counters.skipped = px.before.skipped + 1
        /\ C25_Skipped

\* C25: success + skipped is the number of calls that returned; a call that
\* returns raises exactly one of the two counters by one: 'success' when the
\* session run returns (the call returns the result dict and visualizes iff
\* batch_index < num_visualizations), 'skipped' as above; a call whose session
\* run raises any other error raises it and changes neither counter.
C25_ReturnedCallsCounted ==
    C25_Called =>
        /\ px.counters.success + px.counters.skipped = px.returned
        /\ px.run = "ok" =>
              /\ px.counters.success = px.before.success + 1
              /\ px.counters.skipped = px.before.skipped
              /\ px.result = "result_dict"
              /\ px.visualized <=> (px.calls - 1 < px.num_visualizations)
        /\ C25_Skipped
        /\ px.run \notin {"ok", "InvalidArgumentError"} =>
              /\ px.counters = px.before
              /\ px.result = "raised" /\ px.err = px.run
              /\ px.returned = px.calls - 1

C25_Witness ==
    /\ C25_Called /\ px.run = "InvalidArgumentError"
    /\ px.calls = 3 /\ px.counters = [success |-> 1, skipped |-> 2]
    /\ px.num_visualizations = 2
    /\ px.result = "{}" /\ ~px.visualized

C29_Matching(ckpt) ==
    {v \in px.variables :
        /\ SplitColon(v.name) \in DOMAIN ckpt.shapes
        /\ v.shape = ckpt.shapes[SplitColon(v.name)]}

\* C29: optimistic_restore restores exactly the variables whose name without
\* the ':N' suffix is in the checkpoint with an equal shape, the others keep
\* their value, and no absent or mismatching variable raises an error; so
\* train's two restores both return, and a variable matched by both
\* checkpoints ends with the value of the second.
C29_RestoreMatching ==
    (px.kind = "restore" /\ px.phase # "in") =>
        /\ px.err = "" /\ px.calls = 2
        /\ px.restored_first = C29_Matching(px.first)
        /\ px.restored_second = C29_Matching(px.second)
        /\ \A v \in px.variables :
              /\ px.after_first[v.name] =
                    IF v \in C29_Matching(px.first) THEN px.first.file
                    ELSE "initializer"
              /\ px.session[v.name] =
                    IF v \in C29_Matching(px.second) THEN px.second.file
                    ELSE px.after_first[v.name]

\* ---- C30
\* C30: resize_dividable_image(image, n) gives height floor(h/n)*n and width
\* floor(w/n)*n: both divisible by n, neither above the input's, each within
\* n-1 of it, unchanged when the input's is divisible by n; and for h >= n
\* and w >= n the result is a non-empty image.
C30_Dividable ==
    (px.kind = "dividable" /\ px.phase = "out") =>
        LET h == px.image[2]
            w == px.image[3]
            n == px.number
        IN  /\ px.shape[2] = (h \div n) * n /\ px.shape[3] = (w \div n) * n
            /\ px.shape[2] % n = 0 /\ px.shape[3] % n = 0
            /\ px.shape[2] <= h /\ px.shape[3] <= w
            /\ h - px.shape[2] <= n - 1 /\ w - px.shape[3] <= n - 1
            /\ h % n = 0 => px.shape[2] = h
            /\ w % n = 0 => px.shape[3] = w
            /\ px.shape[1] = px.image[1] /\ px.shape[4] = px.image[4]
            /\ (h >= n /\ w >= n) =>
                  px.err = "" /\ px.shape[2] >= n /\ px.shape[3] >= n

C30_Witness ==
    /\ px.kind = "dividable" /\ px.phase = "out"
    /\ px.image = <<1, 7, 9, 3>> /\ px.number = 4
    /\ px.shape = <<1, 4, 8, 3>> /\ px.err = ""

====
